---- MODULE Spec2Model ----
(***************************************************************************)
(* Run Orchestration Engine of the document workflow app: the plan         *)
(* normalizer (apps/worker/src/index.ts, normalizePlan and its helpers),   *)
(* the sequential step executor with turn budget and cooperative           *)
(* cancellation and the artifact reconciler (runAgent), driven by the API  *)
(* server's POST /api/run and POST /api/run/:id/cancel handlers.           *)
(*                                                                         *)
(* Strings are sequences of one-character strings, so that trim, slash     *)
(* stripping, suffix tests and lower-casing are computed as the code       *)
(* computes them.  The empty string is << >> and is the only falsy one.    *)
(***************************************************************************)
EXTENDS Integers, Sequences, FiniteSets, TLC

VARIABLES
  prompt,           \* the user prompt handed to normalizePlan / runAgent
  plan,             \* the candidate plan (RunPlan as received)
  normalizedPlan,   \* normalizePlan(plan, prompt)
  renormalizedPlan, \* normalizePlan(normalizedPlan, prompt)
  npc,              \* position of the normalizer harness
  pc,               \* position of the run: request, rejected, loop, stepcall,
                    \* artcall, write, writing, returned
  runStatus,        \* run.status of the RunState ("none" before the run exists)
  cancelled,        \* run.cancelled
  events,           \* run.events
  maxTurns,         \* runAgent option maxTurns
  startingStepIndex,\* runAgent option startingStepIndex
  clarifications,   \* runAgent option clarifications
  turnCount,        \* runAgent local turnCount
  cursor,           \* index in normalizedPlan.steps of the step the loop is at
  stepResults,      \* runAgent local stepResults
  calls,            \* Prompt Engine calls the run has started, in order
  stepCallResult,   \* what the latest step call returned
  store,            \* workspace/docs: relative path -> content
  docPaths,         \* runAgent local docPaths (the sources)
  docs,             \* runAgent local docs: the documents as read when the run started
  artifactResult,   \* what the artifact-assembly call returned
  fallbackArtifacts,\* runAgent local fallbackArtifacts
  finalArtifacts,   \* runAgent local finalArtifacts
  writeIndex,       \* index in finalArtifacts of the artifact the write loop is at
  pending,          \* normalizedPath and previousContent of the write in progress
  artifacts,        \* runAgent local artifacts (written so far)
  thrown,           \* message of the Error runAgent threw, << >> if none
  mainArtifact,     \* RunAgentResult.mainArtifact
  ppc,              \* position of createPlan: idle, calling, returned, failed
  planResult,       \* what createPlan's Prompt Engine call produced
  planParsed,       \* what parseJson returned to createPlan
  planCalls,        \* Prompt Engine calls createPlan has started
  createdPlan,      \* the plan createPlan returned
  current,          \* id of the run whose continuation the event loop executes
  other,            \* the RunState and runAgent locals of the run that is suspended
  listeners,        \* run.listeners: the clients whose listener is registered
  streams,          \* client -> how its GET /api/run/:id/events request stands
  sent              \* client -> the events written to its response, in order

nvars == <<prompt, plan, normalizedPlan, renormalizedPlan, npc>>

rvars == <<pc, runStatus, cancelled, events, maxTurns, startingStepIndex, clarifications,
           turnCount, cursor, stepResults, calls, stepCallResult, store, docPaths, docs,
           artifactResult, fallbackArtifacts, finalArtifacts, writeIndex, pending, artifacts, thrown,
           mainArtifact>>

pvars == <<ppc, planResult, planParsed, planCalls, createdPlan>>

mvars == <<current, other>>

svars == <<listeners, streams, sent>>

vars == <<nvars, rvars, pvars, mvars, svars>>

(***************************************************************************)
(* Program constants                                                        *)
(***************************************************************************)
MAX_STEPS == 8
MAX_AGENTS == 4
\* a budget that counts the steps and forgets the artifact-assembly call
MAX_TURNS_STEPS_ONLY == MAX_STEPS

MAX_TURNS == 12
MAX_QUESTIONS == 3
GOAL_CHARS == 120

NextActionsMd == <<"N", "e", "x", "t", " ", "A", "c", "t", "i", "o", "n", "s", ".", "m", "d">>
OpenQuestionsMd == <<"O", "p", "e", "n", " ", "Q", "u", "e", "s", "t", "i", "o", "n", "s", ".", "m", "d">>
SourcesMd == <<"S", "o", "u", "r", "c", "e", "s", ".", "m", "d">>
OutlineMd == <<"O", "u", "t", "l", "i", "n", "e", ".", "m", "d">>
CritiqueMd == <<"C", "r", "i", "t", "i", "q", "u", "e", ".", "m", "d">>
BriefMd == <<"B", "r", "i", "e", "f", ".", "m", "d">>

REQUIRED_OUTPUTS == <<NextActionsMd, OpenQuestionsMd, SourcesMd>>
OPTIONAL_OUTPUTS == <<OutlineMd, CritiqueMd>>
DEFAULT_MAIN_OUTPUT == BriefMd
AGENT_ARCHETYPES == <<"Researcher", "Writer", "Critic", "Organizer">>

WriterName == <<"W", "r", "i", "t", "e", "r">>
ResearcherName == <<"R", "e", "s", "e", "a", "r", "c", "h", "e", "r">>
CriticName == <<"C", "r", "i", "t", "i", "c">>
OrganizerName == <<"O", "r", "g", "a", "n", "i", "z", "e", "r">>

(***************************************************************************)
(* String primitives of the JavaScript runtime                              *)
(***************************************************************************)
EmptyStr == << >>

Min(a, b) == IF a < b THEN a ELSE b

Range(s) == {s[i] : i \in DOMAIN s}

UpperToLower ==
  ("A" :> "a") @@ ("B" :> "b") @@ ("C" :> "c") @@ ("D" :> "d") @@ ("E" :> "e") @@
  ("F" :> "f") @@ ("G" :> "g") @@ ("H" :> "h") @@ ("I" :> "i") @@ ("J" :> "j") @@
  ("K" :> "k") @@ ("L" :> "l") @@ ("M" :> "m") @@ ("N" :> "n") @@ ("O" :> "o") @@
  ("P" :> "p") @@ ("Q" :> "q") @@ ("R" :> "r") @@ ("S" :> "s") @@ ("T" :> "t") @@
  ("U" :> "u") @@ ("V" :> "v") @@ ("W" :> "w") @@ ("X" :> "x") @@ ("Y" :> "y") @@
  ("Z" :> "z")

\* String.prototype.toLowerCase
toLowerCase(s) ==
  [i \in 1..Len(s) |-> IF s[i] \in DOMAIN UpperToLower THEN UpperToLower[s[i]] ELSE s[i]]

IsSpace(c) == c \in {" ", "\t", "\n"}

RECURSIVE TrimStart(_)
TrimStart(s) ==
  IF Len(s) > 0 /\ IsSpace(s[1]) THEN TrimStart(Tail(s)) ELSE s

RECURSIVE TrimEnd(_)
TrimEnd(s) ==
  IF Len(s) > 0 /\ IsSpace(s[Len(s)]) THEN TrimEnd(SubSeq(s, 1, Len(s) - 1)) ELSE s

\* String.prototype.trim
trim(s) == TrimEnd(TrimStart(s))

\* value.replace(/\\/g, "/")
BackslashesToSlashes(s) == [i \in 1..Len(s) |-> IF s[i] = "\\" THEN "/" ELSE s[i]]

RECURSIVE StripLeadingSlashes(_)
\* value.replace(/^\/+/, "")
StripLeadingSlashes(s) ==
  IF Len(s) > 0 /\ s[1] = "/" THEN StripLeadingSlashes(Tail(s)) ELSE s

\* String.prototype.includes
includes(s, sub) ==
  \E i \in 1..(Len(s) - Len(sub) + 1) : SubSeq(s, i, i + Len(sub) - 1) = sub

\* String.prototype.endsWith
endsWith(s, suf) ==
  Len(s) >= Len(suf) /\ SubSeq(s, Len(s) - Len(suf) + 1, Len(s)) = suf

\* a slice that does not cut
slice0Whole(s, n) == s

\* String.prototype.slice(0, n)
slice0(s, n) == SubSeq(s, 1, Min(n, Len(s)))

\* Array.prototype.map over a sequence
MapSeq(s, F(_)) == [i \in 1..Len(s) |-> F(s[i])]

NonEmpty(s) == Len(s) > 0

\* Array.prototype.filter(Boolean) on an array of strings
FilterTruthy(s) == SelectSeq(s, NonEmpty)

(***************************************************************************)
(* Output names                                                             *)
(***************************************************************************)
normalizeDocName(value) ==
  LET trimmed == BackslashesToSlashes(trim(value))
      stripped == StripLeadingSlashes(trimmed)
  IN IF trimmed = EmptyStr THEN EmptyStr
     ELSE IF includes(stripped, <<".", ".">>) THEN EmptyStr
     ELSE IF endsWith(stripped, <<".", "m", "d">>) THEN stripped
     ELSE stripped \o <<".", "m", "d">>

RECURSIVE UniqueFrom(_, _)
UniqueFrom(values, kept) ==
  IF values = << >> THEN kept
  ELSE LET value == Head(values)
           seen == \E i \in 1..Len(kept) : toLowerCase(kept[i]) = toLowerCase(value)
       IN IF value = EmptyStr \/ seen
          THEN UniqueFrom(Tail(values), kept)
          ELSE UniqueFrom(Tail(values), Append(kept, value))

uniqueByLowercase(values) == UniqueFrom(values, << >>)

ReservedLower ==
  {toLowerCase(REQUIRED_OUTPUTS[i]) : i \in 1..Len(REQUIRED_OUTPUTS)}
    \cup {toLowerCase(OPTIONAL_OUTPUTS[i]) : i \in 1..Len(OPTIONAL_OUTPUTS)}

IsReserved(name) == toLowerCase(name) \in ReservedLower

HasLower(list, name) ==
  \E i \in 1..Len(list) : toLowerCase(list[i]) = toLowerCase(name)

RECURSIVE PushRequired(_, _)
PushRequired(list, required) ==
  IF required = << >> THEN list
  ELSE IF HasLower(list, Head(required))
       THEN PushRequired(list, Tail(required))
       ELSE PushRequired(Append(list, Head(required)), Tail(required))

\* buildOutputs without the loop that pushes the required names
buildOutputsNoRequired(outputs) ==
  LET normalized == uniqueByLowercase(FilterTruthy(MapSeq(outputs, normalizeDocName)))
      hasMain == \E i \in 1..Len(normalized) : ~IsReserved(normalized[i])
      withMain == IF hasMain THEN normalized
                  ELSE <<DEFAULT_MAIN_OUTPUT>> \o normalized
  IN uniqueByLowercase(withMain)

buildOutputs(outputs) ==
  LET normalized == uniqueByLowercase(FilterTruthy(MapSeq(outputs, normalizeDocName)))
      withRequired == PushRequired(normalized, REQUIRED_OUTPUTS)
      hasMain == \E i \in 1..Len(withRequired) : ~IsReserved(withRequired[i])
      withMain == IF hasMain THEN withRequired
                  ELSE <<DEFAULT_MAIN_OUTPUT>> \o withRequired
  IN uniqueByLowercase(withMain)

(***************************************************************************)
(* Plans                                                                    *)
(***************************************************************************)
StepId(n) == <<"step-", ToString(n)>>

buildFallbackPlan(p, outputs) ==
  LET fallbackAgents ==
        SubSeq(<<[name |-> ResearcherName, role |-> "Researcher"],
                 [name |-> WriterName, role |-> "Writer"],
                 [name |-> CriticName, role |-> "Critic"],
                 [name |-> OrganizerName, role |-> "Organizer"]>>, 1, Min(4, MAX_AGENTS))
      fallbackSteps ==
        SubSeq(<<[id |-> StepId(1), title |-> <<"Review workspace context">>,
                  description |-> <<"Scan the workspace documents for relevant facts and context.">>,
                  agent |-> fallbackAgents[1].name],
                 [id |-> StepId(2), title |-> <<"Draft outline and key points">>,
                  description |-> <<"Outline the main deliverable and capture key points to address the prompt.">>,
                  agent |-> fallbackAgents[2].name],
                 [id |-> StepId(3), title |-> <<"Critique and refine">>,
                  description |-> <<"Surface risks, gaps, and questions to improve the final outputs.">>,
                  agent |-> fallbackAgents[3].name],
                 [id |-> StepId(4), title |-> <<"Assemble artifacts">>,
                  description |-> <<"Compile the deliverable, next actions, open questions, and sources.">>,
                  agent |-> fallbackAgents[4].name]>>, 1, Min(4, MAX_STEPS))
  IN [interpretedGoal |-> slice0(p, GOAL_CHARS),
      steps |-> fallbackSteps,
      agents |-> fallbackAgents,
      outputs |-> buildOutputs(outputs),
      questions |-> << >>]

AgentNameOf(agent) == agent.name

\* plan.agents.find((agent) => agent.name === name)?.role
RoleOf(agents, name) ==
  LET hits == {i \in 1..Len(agents) : agents[i].name = name}
  IN IF hits = {} THEN ""
     ELSE agents[CHOOSE i \in hits : \A j \in hits : i <= j].role

\* a normalizer that ignores the declared roles
normalizeAgentsCycleOnly(agents) ==
  LET names == uniqueByLowercase(FilterTruthy(MapSeq(agents, AgentNameOf)))
      mapped == [i \in 1..Len(names) |->
                   [name |-> names[i], role |-> AGENT_ARCHETYPES[((i - 1) % 4) + 1]]]
      trimmedAgents == SubSeq(mapped, 1, Min(MAX_AGENTS, Len(mapped)))
  IN IF Len(trimmedAgents) = 0
     THEN <<[name |-> WriterName, role |-> "Writer"]>>
     ELSE trimmedAgents

normalizeAgents(agents) ==
  LET names == uniqueByLowercase(FilterTruthy(MapSeq(agents, AgentNameOf)))
      mapped == [i \in 1..Len(names) |->
                   LET role == RoleOf(agents, names[i])
                   IN [name |-> names[i],
                       role |-> IF role \in Range(AGENT_ARCHETYPES)
                                THEN role
                                ELSE AGENT_ARCHETYPES[((i - 1) % 4) + 1]]]
      trimmedAgents == SubSeq(mapped, 1, Min(MAX_AGENTS, Len(mapped)))
  IN IF Len(trimmedAgents) = 0
     THEN <<[name |-> WriterName, role |-> "Writer"]>>
     ELSE trimmedAgents

\* normalizeSteps reassigning by the 1-based position instead of the 0-based index
normalizeStepsOffByOne(steps, trimmedAgents) ==
  [i \in 1..Min(MAX_STEPS, Len(steps)) |->
     LET step == steps[i]
         known == \E k \in 1..Len(trimmedAgents) : trimmedAgents[k].name = step.agent
     IN [id |-> IF step.id # EmptyStr THEN step.id ELSE StepId(i),
         title |-> IF step.title # EmptyStr THEN step.title ELSE <<"Step ", ToString(i)>>,
         description |-> step.description,
         agent |-> IF known THEN step.agent
                   ELSE trimmedAgents[(i % Len(trimmedAgents)) + 1].name]]

normalizeSteps(steps, trimmedAgents) ==
  [i \in 1..Min(MAX_STEPS, Len(steps)) |->
     LET step == steps[i]
         known == \E k \in 1..Len(trimmedAgents) : trimmedAgents[k].name = step.agent
     IN [id |-> IF step.id # EmptyStr THEN step.id ELSE StepId(i),
         title |-> IF step.title # EmptyStr THEN step.title ELSE <<"Step ", ToString(i)>>,
         description |-> step.description,
         agent |-> IF known THEN step.agent
                   ELSE trimmedAgents[((i - 1) % Len(trimmedAgents)) + 1].name]]

normalizeQuestions(questions) ==
  FilterTruthy(SubSeq(questions, 1, Min(MAX_QUESTIONS, Len(questions))))

\* normalizePlan without the zero-step fallback
normalizePlanNoFallback(p, userPrompt) ==
  LET trimmedAgents == normalizeAgents(p.agents)
      steps == normalizeSteps(p.steps, trimmedAgents)
  IN [interpretedGoal |-> IF p.interpretedGoal # EmptyStr THEN p.interpretedGoal
                          ELSE slice0(userPrompt, GOAL_CHARS),
      steps |-> steps,
      agents |-> trimmedAgents,
      outputs |-> buildOutputs(p.outputs),
      questions |-> normalizeQuestions(p.questions)]

normalizePlan(p, userPrompt) ==
  LET trimmedAgents == normalizeAgents(p.agents)
      steps == normalizeSteps(p.steps, trimmedAgents)
  IN IF Len(steps) = 0
     THEN buildFallbackPlan(userPrompt, p.outputs)
     ELSE [interpretedGoal |-> IF p.interpretedGoal # EmptyStr THEN p.interpretedGoal
                               ELSE slice0(userPrompt, GOAL_CHARS),
           steps |-> steps,
           agents |-> trimmedAgents,
           outputs |-> buildOutputs(p.outputs),
           questions |-> normalizeQuestions(p.questions)]

(***************************************************************************)
(* Prompt Engine results.  A response text is a sequence of tokens: prose, *)
(* an opening brace, a closing brace, or the members of a JSON object.     *)
(***************************************************************************)
NoMembers == [hasArtifacts |-> FALSE, artifacts |-> << >>]
Prose == [t |-> "prose", v |-> NoMembers]
LBrace == [t |-> "{", v |-> NoMembers]
RBrace == [t |-> "}", v |-> NoMembers]
Members(v) == [t |-> "members", v |-> v]

\* JSON.parse of a token sequence: an object only if it is exactly
\* { members } or { }
JsonParse(text) ==
  IF Len(text) = 3 /\ text[1] = LBrace /\ text[2].t = "members" /\ text[3] = RBrace
    THEN [ok |-> TRUE, value |-> text[2].v]
  ELSE IF text = <<LBrace, RBrace>>
    THEN [ok |-> TRUE, value |-> NoMembers]
  ELSE [ok |-> FALSE, value |-> NoMembers]

\* indexOf / lastIndexOf, 0 when absent
IndexOfTok(text, tok) ==
  IF \E i \in 1..Len(text) : text[i] = tok
  THEN CHOOSE i \in 1..Len(text) : text[i] = tok /\ \A j \in 1..(i - 1) : text[j] # tok
  ELSE 0

LastIndexOfTok(text, tok) ==
  IF \E i \in 1..Len(text) : text[i] = tok
  THEN CHOOSE i \in 1..Len(text) : text[i] = tok /\ \A j \in (i + 1)..Len(text) : text[j] # tok
  ELSE 0

\* a parser that wants the whole text to be the object
parseJsonStrict(value) == JsonParse(value)

parseJson(value) ==
  LET start == IndexOfTok(value, LBrace)
      end == LastIndexOfTok(value, RBrace)
  IN IF start = 0 \/ end = 0 \/ end <= start
     THEN [ok |-> FALSE, value |-> NoMembers]
     ELSE JsonParse(SubSeq(value, start, end))

(***************************************************************************)
(* Artifacts                                                                *)
(***************************************************************************)
\* a join that stops after the first part
JoinFirst(parts, sep) == IF parts = << >> THEN << >> ELSE parts[1]

RECURSIVE Join(_, _)
\* Array.prototype.join
Join(parts, sep) ==
  IF parts = << >> THEN << >>
  ELSE IF Len(parts) = 1 THEN parts[1]
  ELSE parts[1] \o sep \o Join(Tail(parts), sep)

\* output.replace(/\.md$/i, "")
StripMdSuffix(name) ==
  IF endsWith(toLowerCase(name), <<".", "m", "d">>)
  THEN SubSeq(name, 1, Len(name) - 3)
  ELSE name

buildFallbackArtifacts(p, stepOutputs, sources, clar) ==
  LET notes == Join([i \in 1..Len(stepOutputs) |->
                       <<"## ">> \o stepOutputs[i].title \o <<"\n">> \o stepOutputs[i].output],
                    <<"\n\n">>)
      sourcesContent ==
        IF Len(sources) > 0
        THEN Join([i \in 1..Len(sources) |-> <<"- ">> \o sources[i]], <<"\n">>)
        ELSE <<"- None">>
      questions ==
        IF Len(p.questions) > 0
        THEN Join([i \in 1..Len(p.questions) |-> <<"- ">> \o p.questions[i]], <<"\n">>)
        ELSE <<"- None noted.">>
      Content(output) ==
        LET lower == toLowerCase(output) IN
        IF lower = toLowerCase(SourcesMd) THEN <<"# Sources\n\n">> \o sourcesContent
        ELSE IF lower = toLowerCase(NextActionsMd) THEN
          <<"# Next Actions\n\n- Draft next steps based on the brief.\n- Validate open questions with stakeholders.">>
        ELSE IF lower = toLowerCase(OpenQuestionsMd) THEN <<"# Open Questions\n\n">> \o questions
        ELSE IF lower = toLowerCase(OutlineMd) THEN <<"# Outline\n\n">> \o notes
        ELSE IF lower = toLowerCase(CritiqueMd) THEN
          <<"# Critique\n\n- Review the brief for gaps or assumptions.\n- Confirm alignment with the prompt.">>
        ELSE Join(<< <<"# ">> \o StripMdSuffix(output),
                     IF p.interpretedGoal # EmptyStr
                       THEN <<"\n**Goal:** ">> \o p.interpretedGoal ELSE EmptyStr,
                     IF clar # EmptyStr
                       THEN <<"\n**Clarifications:** ">> \o clar ELSE EmptyStr,
                     <<"\n## Notes">>,
                     IF notes # EmptyStr THEN notes ELSE <<"No notes available.">> >>,
                  <<"\n">>)
  IN [i \in 1..Len(p.outputs) |-> [path |-> p.outputs[i], content |-> Content(p.outputs[i])]]

\* artifactsPayloadOf reading the text of a failed call too
artifactsPayloadIgnoringStatus(result) ==
  LET parsed == parseJson(result.result)
  IN IF parsed.ok /\ parsed.value.hasArtifacts
     THEN [ok |-> TRUE,
           artifacts |-> SelectSeq(parsed.value.artifacts, LAMBDA a : a.path # EmptyStr)]
     ELSE [ok |-> FALSE, artifacts |-> << >>]

\* runAgent lines 544-558: the artifacts the engine provided, null as ok = FALSE
artifactsPayloadOf(result) ==
  IF result.subtype = "success"
  THEN LET parsed == parseJson(result.result)
       IN IF parsed.ok /\ parsed.value.hasArtifacts
          THEN [ok |-> TRUE,
                artifacts |-> SelectSeq(parsed.value.artifacts,
                                        LAMBDA a : a.path # EmptyStr)]
          ELSE [ok |-> FALSE, artifacts |-> << >>]
  ELSE [ok |-> FALSE, artifacts |-> << >>]

\* runAgent lines 566-568
rawArtifactsOf(payload, fallback) ==
  IF payload.ok /\ Len(payload.artifacts) > 0 THEN payload.artifacts ELSE fallback

\* Array.prototype.find by lower-cased path, as a set of indices (empty: no match)
FirstMatch(list, output) ==
  LET hits == {i \in 1..Len(list) : toLowerCase(list[i].path) = toLowerCase(output)}
  IN IF hits = {} THEN 0 ELSE CHOOSE i \in hits : \A j \in hits : i <= j

\* reconcile without the second lookup in the fallback artifacts
reconcileNoFallback(plannedOutputs, rawArtifacts, fallback) ==
  [i \in 1..Len(plannedOutputs) |->
     LET output == plannedOutputs[i]
         m == FirstMatch(rawArtifacts, output)
     IN IF m # 0 THEN rawArtifacts[m]
        ELSE [path |-> output, content |-> EmptyStr]]

\* runAgent lines 570-584
reconcile(plannedOutputs, rawArtifacts, fallback) ==
  [i \in 1..Len(plannedOutputs) |->
     LET output == plannedOutputs[i]
         m == FirstMatch(rawArtifacts, output)
         f == FirstMatch(fallback, output)
     IN IF m # 0 THEN rawArtifacts[m]
        ELSE IF f # 0 THEN fallback[f]
        ELSE [path |-> output, content |-> EmptyStr]]

NoError == << >>

\* the message of the Error ensureDocsPath throws, NoError if it returns.
\* path.extname is ".md" only if the base name is longer than ".md" itself.
ensureDocsPath(relativePath) ==
  IF relativePath = EmptyStr \/ includes(relativePath, <<".", ".">>)
    THEN <<"Invalid document path.">>
  ELSE IF ~( /\ endsWith(relativePath, <<".", "m", "d">>)
             /\ Len(relativePath) > 3
             /\ relativePath[Len(relativePath) - 3] # "/" )
    THEN <<"Only markdown files are allowed.">>
  ELSE NoError

\* a selection that ignores the reserved names
selectFirstArtifact(written) ==
  IF Len(written) > 0 THEN written[1].relativePath ELSE DEFAULT_MAIN_OUTPUT

\* runAgent lines 611-618
selectMainArtifact(written) ==
  LET free == {i \in 1..Len(written) : ~IsReserved(written[i].relativePath)}
  IN IF free # {} THEN written[CHOOSE i \in free : \A j \in free : i <= j].relativePath
     ELSE IF Len(written) > 0 THEN written[1].relativePath
     ELSE DEFAULT_MAIN_OUTPUT

\* UTF-16 code unit order of the characters that occur in document names
CodeOrder ==
  <<" ", ".", "/", "A", "B", "C", "D", "E", "F", "G", "H", "I", "J", "K", "L", "M",
    "N", "O", "P", "Q", "R", "S", "T", "U", "V", "W", "X", "Y", "Z", "\\",
    "a", "b", "c", "d", "e", "f", "g", "h", "i", "j", "k", "l", "m",
    "n", "o", "p", "q", "r", "s", "t", "u", "v", "w", "x", "y", "z">>

Code(c) == CHOOSE i \in 1..Len(CodeOrder) : CodeOrder[i] = c

RECURSIVE StrLess(_, _)
StrLess(a, b) ==
  IF b = << >> THEN FALSE
  ELSE IF a = << >> THEN TRUE
  ELSE IF Code(a[1]) # Code(b[1]) THEN Code(a[1]) < Code(b[1])
  ELSE StrLess(Tail(a), Tail(b))

RECURSIVE SortNames(_)
SortNames(S) ==
  IF S = {} THEN << >>
  ELSE LET least == CHOOSE x \in S : \A y \in S \ {x} : StrLess(x, y)
       IN <<least>> \o SortNames(S \ {least})

\* the markdown files of workspace/docs, sorted
listMarkdownFiles(files) ==
  SortNames({name \in DOMAIN files : endsWith(name, <<".", "m", "d">>)})

\* fs.readFile(...).catch(() => "")
readOrEmpty(files, name) == IF name \in DOMAIN files THEN files[name] ELSE EmptyStr

\* a run that always starts at the first step
firstStepToRunFromStart(steps, index) == 1

\* startingStepIndex applied by Array.prototype.slice: the index of the first
\* step to run (a negative index counts from the end)
firstStepToRun(steps, index) ==
  IF index < 0 THEN (IF Len(steps) + index < 0 THEN 1 ELSE Len(steps) + index + 1)
  ELSE IF index > Len(steps) THEN Len(steps) + 1
  ELSE index + 1

(***************************************************************************)
(* Candidate plans handed to the normalizer.  Lists are generated from     *)
(* pools by an arithmetic pattern (entry i is pool[(a*i + b) mod K]), so   *)
(* that long lists, duplicates, case variants and empty entries all occur. *)
(***************************************************************************)
MaxCandSteps == 9
MaxCandAgents == 6
MaxCandOutputs == 2
MaxCandQuestions == 4

PatSeq(pool, n, a, b) == [i \in 1..n |-> pool[((a * i + b) % Len(pool)) + 1]]

AnaName == <<"A", "n", "a">>
AgentNamePool ==
  <<AnaName, <<"B", "o">>, <<"a", "n", "a">>, <<"C", "y">>, EmptyStr, <<"D", "i">>, WriterName>>
RolePool == <<"Critic", "Bogus", "">>
StepAgentPool == <<AnaName, <<"Z", "e", "d">>, EmptyStr, WriterName>>

AgentList(n, a, b, c, d) ==
  [i \in 1..n |-> [name |-> PatSeq(AgentNamePool, n, a, b)[i],
                   role |-> PatSeq(RolePool, n, c, d)[i]]]

StepList(n, a, b, withId, withTitle) ==
  [i \in 1..n |-> [id |-> IF withId THEN <<"s", ToString(i)>> ELSE EmptyStr,
                   title |-> IF withTitle THEN <<"T", ToString(i)>> ELSE EmptyStr,
                   description |-> IF withTitle THEN <<"D">> ELSE EmptyStr,
                   agent |-> PatSeq(StepAgentPool, n, a, b)[i]]]

OutputNameInputs ==
  { EmptyStr,
    BriefMd,
    <<"P", "l", "a", "n">>,
    <<" ", "P", "l", "a", "n", ".", "m", "d", " ">>,
    <<"/", "P", "l", "a", "n", ".", "m", "d">>,
    <<"/", " ", "P", "l", "a", "n">>,
    <<"\\", "p", "l", "a", "n", ".", "m", "d">>,
    <<".", ".", "/", "x", ".", "m", "d">>,
    <<"/">>,
    <<" ", " ">>,
    SourcesMd,
    <<"S", "O", "U", "R", "C", "E", "S", ".", "m", "d">>,
    <<"S", "o", "u", "r", "c", "e", "s", ".", "M", "D">>,
    <<"/", " ", "S", "o", "u", "r", "c", "e", "s", ".", "m", "d">>,
    NextActionsMd,
    OpenQuestionsMd,
    OutlineMd,
    CritiqueMd }

SeqsUpTo(S, n) == UNION {[1..k -> S] : k \in 0..n}

GoalInputs == {EmptyStr, <<"G", "o", "a", "l">>}
LongPrompt == [i \in 1..(GOAL_CHARS + 1) |-> IF i <= GOAL_CHARS THEN "x" ELSE "y"]
PromptInputs == {<<"d", "o">>, LongPrompt}
QuestionInputs == {EmptyStr, <<"Q", "1">>, <<"Q", "2">>}

MkPlan(goal, steps, agents, outputs, questions) ==
  [interpretedGoal |-> goal, steps |-> steps, agents |-> agents,
   outputs |-> outputs, questions |-> questions]

In(p, pl) == [prompt |-> p, plan |-> pl]

\* steps against agents: which names survive, which steps are reassigned
StepAgentFamily ==
  { In(<<"d", "o">>,
       MkPlan(EmptyStr, StepList(n, a, b, TRUE, TRUE), AgentList(m, c, d, 0, 0), << >>, << >>)) :
      n \in 0..MaxCandSteps, a \in 0..1, b \in 0..3,
      m \in 0..MaxCandAgents, c \in 0..2, d \in 0..6 }

\* agent names against declared roles
AgentRoleFamily ==
  { In(<<"d", "o">>,
       MkPlan(EmptyStr, StepList(1, 0, 0, TRUE, TRUE), AgentList(m, a, b, c, d), << >>, << >>)) :
      m \in 0..MaxCandAgents, a \in 0..2, b \in 0..6, c \in 0..2, d \in 0..2 }

\* step ids and titles, present or missing
StepTextFamily ==
  { In(<<"d", "o">>,
       MkPlan(EmptyStr, StepList(n, 1, 0, i, t), AgentList(2, 1, 0, 0, 0), << >>, << >>)) :
      n \in 0..MaxCandSteps, i \in BOOLEAN, t \in BOOLEAN }

\* output names, with and without steps
OutputFamily ==
  { In(<<"d", "o">>,
       MkPlan(EmptyStr, StepList(n, 0, 0, TRUE, TRUE), AgentList(1, 0, 0, 0, 0), outs, << >>)) :
      n \in 0..1, outs \in SeqsUpTo(OutputNameInputs, MaxCandOutputs) }

\* goal, prompt and questions, with and without steps
TextFamily ==
  { In(p, MkPlan(g, StepList(n, 0, 0, TRUE, TRUE), AgentList(m, 1, 0, 0, 0), << >>, qs)) :
      p \in PromptInputs, g \in GoalInputs, n \in 0..1, m \in 0..1,
      qs \in SeqsUpTo(QuestionInputs, MaxCandQuestions) }

CandidateInputs ==
  StepAgentFamily \cup AgentRoleFamily \cup StepTextFamily \cup OutputFamily \cup TextFamily

NoPlan == MkPlan(EmptyStr, << >>, << >>, << >>, << >>)

(***************************************************************************)
(* The run: POST /api/run, runAgent, POST /api/run/:id/cancel              *)
(***************************************************************************)
MaxRunSteps == 3
MaxBudget == 3
MaxStart == 2

NoResult == [subtype |-> "none", result |-> << >>, hasErrors |-> FALSE, errors |-> << >>]
NoPending == [normalizedPath |-> EmptyStr, previousContent |-> EmptyStr]
EmptyStore == [name \in {} |-> EmptyStr]

\* the state before any run request
RunIdle ==
  /\ pc = "request"
  /\ runStatus = "none"
  /\ cancelled = FALSE
  /\ events = << >>
  /\ maxTurns = MAX_TURNS
  /\ startingStepIndex = 0
  /\ clarifications = EmptyStr
  /\ turnCount = 0
  /\ cursor = 1
  /\ stepResults = << >>
  /\ calls = << >>
  /\ stepCallResult = NoResult
  /\ docPaths = << >>
  /\ docs = EmptyStore
  /\ artifactResult = NoResult
  /\ fallbackArtifacts = << >>
  /\ finalArtifacts = << >>
  /\ writeIndex = 1
  /\ pending = NoPending
  /\ artifacts = << >>
  /\ thrown = NoError
  /\ mainArtifact = EmptyStr

\* a RunState and runAgent frame that do not exist yet
IdleContext ==
  [prompt |-> EmptyStr, plan |-> NoPlan, normalizedPlan |-> NoPlan, pc |-> "request",
   runStatus |-> "none", cancelled |-> FALSE, events |-> << >>, maxTurns |-> MAX_TURNS,
   startingStepIndex |-> 0, clarifications |-> EmptyStr, turnCount |-> 0, cursor |-> 1,
   stepResults |-> << >>, calls |-> << >>, stepCallResult |-> NoResult, docPaths |-> << >>,
   docs |-> EmptyStore, artifactResult |-> NoResult, fallbackArtifacts |-> << >>,
   finalArtifacts |-> << >>, writeIndex |-> 1, pending |-> NoPending, artifacts |-> << >>,
   thrown |-> NoError, mainArtifact |-> EmptyStr]

\* a single run, the first one
PairIdle ==
  /\ current = 1
  /\ other = IdleContext

Clients == {"c1", "c2"}

\* no client has asked for the event stream
StreamIdle ==
  /\ listeners = {}
  /\ streams = [c \in Clients |-> "none"]
  /\ sent = [c \in Clients |-> << >>]

\* the loop of emitRunEvent over run.listeners: every event a handler pushed
\* to run.events was written, at the push, to the response of each client
\* whose listener was registered
Notified ==
  /\ sent' = [c \in Clients |->
                IF c \in listeners
                THEN sent[c] \o SubSeq(events', Len(events) + 1, Len(events'))
                ELSE sent[c]]
  /\ UNCHANGED <<listeners, streams>>

\* parseJson has not been called
NoParse == [ok |-> FALSE, value |-> NoMembers]

\* before createPlan is called
PlanIdle ==
  /\ ppc = "idle"
  /\ planResult = NoResult
  /\ planParsed = NoParse
  /\ planCalls = 0
  /\ createdPlan = NoPlan

(***************************************************************************)
(* The normalizer applied to a candidate, and to its own result (runAgent  *)
(* re-normalizes every plan it is handed, also one createPlan produced).   *)
(***************************************************************************)
InitNorm ==
  /\ \E c \in CandidateInputs : prompt = c.prompt /\ plan = c.plan
  /\ normalizedPlan = NoPlan
  /\ renormalizedPlan = NoPlan
  /\ npc = "candidate"
  /\ RunIdle
  /\ store = EmptyStore
  /\ PlanIdle
  /\ PairIdle
  /\ StreamIdle

Normalize ==
  /\ npc = "candidate"
  /\ normalizedPlan' = normalizePlan(plan, prompt)
  /\ npc' = "normalized"
  /\ UNCHANGED <<prompt, plan, renormalizedPlan, rvars, pvars, mvars>>
  /\ UNCHANGED svars

Renormalize ==
  /\ npc = "normalized"
  /\ renormalizedPlan' = normalizePlan(normalizedPlan, prompt)
  /\ npc' = "renormalized"
  /\ UNCHANGED <<prompt, plan, normalizedPlan, rvars, pvars, mvars>>
  /\ UNCHANGED svars

NextNorm == Normalize \/ Renormalize

SpecNorm == InitNorm /\ [][NextNorm]_vars

TypeNorm == npc \in {"candidate", "normalized", "renormalized"}

(***************************************************************************)
(* Requests, engine results and stores the run is exercised with           *)
(***************************************************************************)
PlanMd == <<"P", "l", "a", "n", ".", "m", "d">>
NotesMd == <<"N", "o", "t", "e", "s", ".", "m", "d">>

Request(p, hasPlan, pl, clar, start, budget) ==
  [prompt |-> p, hasPlan |-> hasPlan, plan |-> pl, clarifications |-> clar,
   startingStepIndex |-> start, maxTurns |-> budget]

RunPlan(n, outs, qs) ==
  MkPlan(<<"G">>, StepList(n, 1, 0, TRUE, TRUE), AgentList(2, 1, 0, 0, 0), outs, qs)

BudgetInputs == (0..MaxBudget) \cup {MAX_TURNS}
StartInputs == (0 - 1)..MaxStart

RunOutputInputs ==
  { << >>,
    <<PlanMd, OutlineMd>>,
    << <<"/", " ", "P", "l", "a", "n">>, <<"P", "l", "a", "n">> >>,
    << <<"/">> >>,
    << <<"x", ".">>, PlanMd >>,
    << <<"x", ".">> >> }

\* budgets and starting indices against plans of every length
\* and the default budget against a plan of more steps than a plan may keep
ControlRequests ==
  { Request(<<"d", "o">>, TRUE, RunPlan(n, << >>, << >>), EmptyStr, start, budget) :
      n \in 0..MaxRunSteps, start \in StartInputs, budget \in BudgetInputs }
  \cup
  { Request(<<"d", "o">>, TRUE, RunPlan(MAX_STEPS + 1, << >>, << >>), EmptyStr, start, MAX_TURNS) :
      start \in {0, MAX_STEPS - 1} }

\* output names against the artifact phase
OutputRequests ==
  { Request(<<"d", "o">>, TRUE, RunPlan(1, outs, << >>), clar, 0, MAX_TURNS) :
      outs \in RunOutputInputs, clar \in {EmptyStr, <<"c">>} }

\* the request checks: prompt, plan, questions against clarifications
GateRequests ==
  { Request(p, hasPlan, RunPlan(1, << >>, qs), clar, 0, MAX_TURNS) :
      p \in {<<"d", "o">>, <<" ">>}, hasPlan \in BOOLEAN,
      qs \in {<< >>, << <<"Q", "1">> >>, <<EmptyStr>>, << <<"Q", "1">>, <<"Q", "2">> >>},
      clar \in {EmptyStr, <<" ">>, <<"c">>} }

RunRequests == ControlRequests \cup OutputRequests \cup GateRequests

Art(path, content) == [path |-> path, content |-> content]
WithArtifacts(list) == Members([hasArtifacts |-> TRUE, artifacts |-> list])

Failure(subtype, text, hasErrors, errors) ==
  [subtype |-> subtype, result |-> text, hasErrors |-> hasErrors, errors |-> errors]
Success(text) == [subtype |-> "success", result |-> text, hasErrors |-> FALSE, errors |-> << >>]

StepResponses ==
  { Success(<<"notes">>),
    Failure("error_during_execution", << >>, TRUE, << <<"boom">>, <<"bang">> >>),
    Failure("error_max_turns", <<"partial">>, FALSE, << >>) }

\* artifact-assembly results the run must fall back on entirely
UnusableArtifactResponses ==
  { Failure("error_during_execution", << >>, TRUE, << <<"boom">> >>),
    Failure("error_max_turns",
            <<LBrace, WithArtifacts(<<Art(BriefMd, <<"E1">>), Art(PlanMd, <<"E2">>)>>), RBrace>>,
            FALSE, << >>),
    Success(<< >>),
    Success(<<Prose>>),
    Success(<<RBrace, Prose, LBrace>>),
    Success(<<LBrace, Prose, RBrace>>),
    Success(<<Prose, LBrace, Members(NoMembers), RBrace>>),
    Success(<<LBrace, WithArtifacts(<< >>), RBrace>>),
    Success(<<LBrace, WithArtifacts(<<Art(EmptyStr, <<"E0">>)>>), RBrace>>) }

\* artifact-assembly results with at least one usable artifact
UsableArtifactResponses ==
  { Success(<<Prose, LBrace,
              WithArtifacts(<<Art(BriefMd, <<"E1">>), Art(SourcesMd, <<"E2">>)>>),
              RBrace, Prose>>),
    Success(<<LBrace,
              WithArtifacts(<<Art(<<"B", "R", "I", "E", "F", ".", "m", "d">>, <<"E1">>),
                              Art(BriefMd, <<"E2">>),
                              Art(<<"O", "t", "h", "e", "r", ".", "m", "d">>, <<"E3">>)>>),
              RBrace>>),
    Success(<<LBrace,
              WithArtifacts(<<Art(EmptyStr, <<"E0">>),
                              Art(<<"b", "r", "i", "e", "f", ".", "M", "D">>, <<"E1">>),
                              Art(PlanMd, <<"E2">>)>>),
              RBrace>>) }

ArtifactResponses == UnusableArtifactResponses \cup UsableArtifactResponses

StoreInputs ==
  { EmptyStore,
    (NotesMd :> <<"n0">>) @@ (BriefMd :> <<"b0">>) }

(***************************************************************************)
(* API server and runAgent                                                  *)
(***************************************************************************)
Ev(kind, data) == [event |-> kind, data |-> data]

\* an emitter that pushes every event twice
emitRunEventTwice(log, event) == Append(Append(log, event), event)

\* emitRunEvent
emitRunEvent(log, event) == Append(log, event)

\* normalizePlanInput
normalizePlanInput(p) == [p EXCEPT !.questions = FilterTruthy(p.questions)]

\* a step failure that loses the engine's detail
stepErrorMessageGeneric(result) == <<"Agent step failed.">>

\* result.errors?.join("; ") ?? "Agent step failed."
stepErrorMessage(result) ==
  IF result.hasErrors THEN Join(result.errors, <<"; ">>) ELSE <<"Agent step failed.">>

\* a cancellation predicate that never reports the request
shouldCancelNever(flag) == FALSE

\* shouldCancel: () => run.cancelled
shouldCancel(flag) == flag

\* a step call whose failure goes unnoticed
stepFailedNever(result) == FALSE

\* result.subtype !== "success" after a step call
stepFailed(result) == result.subtype # "success"

CancelledMessage == <<"Run cancelled.">>
BudgetMessage == <<"Run exceeded the maximum number of turns.">>

\* a catch block that reports every failure as an error
ThrowIgnoringCancel(message, log) ==
  /\ thrown' = message
  /\ pc' = "returned"
  /\ runStatus' = "error"
  /\ events' = Append(log, [event |-> "error", data |-> message])

\* the catch block of POST /api/run, entered with the events emitted so far
Throw(message, log) ==
  /\ thrown' = message
  /\ pc' = "returned"
  /\ runStatus' = IF cancelled THEN "cancelled" ELSE "error"
  /\ events' = emitRunEvent(log, IF cancelled THEN Ev("cancelled", <<"Cancelled">>)
                                 ELSE Ev("error", message))

InitRun ==
  /\ prompt = EmptyStr
  /\ plan = NoPlan
  /\ normalizedPlan = NoPlan
  /\ renormalizedPlan = NoPlan
  /\ npc = "candidate"
  /\ RunIdle
  /\ store \in StoreInputs
  /\ PlanIdle
  /\ PairIdle
  /\ StreamIdle

\* a server that only asks for a prompt and a plan
runRefusedWithoutPlanOnly(trimmedPrompt, hasPlan, planInput, clar) ==
  trimmedPrompt = EmptyStr \/ ~hasPlan

\* the two 400 answers of POST /api/run
runRefused(trimmedPrompt, hasPlan, planInput, clar) ==
  \/ trimmedPrompt = EmptyStr \/ ~hasPlan
  \/ Len(planInput.questions) > 0 /\ clar = EmptyStr

\* POST /api/run up to the first suspension of runAgent's step loop, for a
\* request of the given set
StartRunFrom(requests) ==
  /\ pc = "request"
  /\ \E req \in requests :
       LET trimmedPrompt == trim(req.prompt)
           planInput == normalizePlanInput(req.plan)
           clar == trim(req.clarifications)
           normalized == normalizePlan(planInput, trimmedPrompt)
       IN /\ prompt' = trimmedPrompt
          /\ plan' = IF req.hasPlan THEN planInput ELSE NoPlan
          /\ clarifications' = clar
          /\ IF runRefused(trimmedPrompt, req.hasPlan, planInput, clar)
             THEN /\ pc' = "rejected"
                  /\ UNCHANGED <<normalizedPlan, runStatus, events, maxTurns,
                                 startingStepIndex, cursor, docPaths, docs>>
             ELSE /\ pc' = "loop"
                  /\ runStatus' = "running"
                  /\ events' = emitRunEvent(emitRunEvent(events, Ev("started", <<"Started">>)),
                                            Ev("planning", <<"Planning">>))
                  /\ normalizedPlan' = normalized
                  /\ maxTurns' = req.maxTurns
                  /\ startingStepIndex' = req.startingStepIndex
                  /\ cursor' = firstStepToRun(normalized.steps, req.startingStepIndex)
                  /\ docPaths' = listMarkdownFiles(store)
                  /\ docs' = store
  /\ UNCHANGED <<renormalizedPlan, npc, pvars, mvars, cancelled, turnCount, stepResults, calls, stepCallResult,
                 store, artifactResult, fallbackArtifacts, finalArtifacts, writeIndex, pending,
                 artifacts, thrown, mainArtifact>>
  /\ Notified

StartRun == StartRunFrom(RunRequests)

\* POST /api/run/:id/cancel
Cancel ==
  /\ runStatus # "none"
  /\ cancelled' = TRUE
  /\ UNCHANGED <<nvars, pvars, mvars, pc, runStatus, events, maxTurns, startingStepIndex, clarifications,
                 turnCount, cursor, stepResults, calls, stepCallResult, store, docPaths, docs,
                 artifactResult, fallbackArtifacts, finalArtifacts, writeIndex, pending,
                 artifacts, thrown, mainArtifact>>
  /\ UNCHANGED svars

\* consumeTurn comparing before it increments
consumeTurnLate(count, budget) == count <= budget

\* consumeTurn: TRUE if it returns, FALSE if it throws
consumeTurn(count, budget) == count + 1 <= budget

\* loop head of a step up to the start of its Prompt Engine call
StepBegin ==
  /\ pc = "loop"
  /\ cursor <= Len(normalizedPlan.steps)
  /\ LET step == normalizedPlan.steps[cursor]
         log == emitRunEvent(
                  emitRunEvent(events, Ev("planning", <<"Agent ">> \o step.agent)),
                  Ev("step_started", step.id))
     IN IF shouldCancel(cancelled)
        THEN /\ Throw(CancelledMessage, events)
             /\ UNCHANGED <<turnCount, calls>>
        ELSE /\ turnCount' = turnCount + 1
             /\ IF consumeTurn(turnCount, maxTurns)
                THEN /\ calls' = Append(calls, [kind |-> "step", index |-> cursor])
                     /\ pc' = "stepcall"
                     /\ events' = log
                     /\ UNCHANGED <<runStatus, thrown>>
                ELSE /\ Throw(BudgetMessage, log)
                     /\ UNCHANGED calls
  /\ UNCHANGED <<nvars, pvars, mvars, cancelled, maxTurns, startingStepIndex, clarifications, cursor,
                 stepResults, stepCallResult, store, docPaths, docs, artifactResult,
                 fallbackArtifacts, finalArtifacts, writeIndex, pending, artifacts,
                 mainArtifact>>
  /\ Notified

\* a loop that never leaves its step
nextStepSame(index) == index

\* for (const step of stepsToRun): the iterator moves on to the next step
nextStep(index) == index + 1

\* a step loop that saves each step's notes as a document
storeAfterStepSaved(files, stepResult) == (stepResult.stepId :> stepResult.output) @@ files

\* the documents after a step completed: the step loop (lines 513-522) records
\* and reports the StepResult and makes no file-system call
storeAfterStep(files, stepResult) == files

\* a run that keeps only the result of its latest step
pushStepResultKeepingLatest(results, stepResult) == <<stepResult>>

\* stepResults.push(stepResult)
pushStepResult(results, stepResult) == Append(results, stepResult)

\* the step's Prompt Engine call returns one of the given results
StepReturnFrom(responses) ==
  /\ pc = "stepcall"
  /\ \E result \in responses :
       LET step == normalizedPlan.steps[cursor]
           stepResult == [stepId |-> step.id, title |-> step.title, agent |-> step.agent,
                          output |-> result.result]
       IN /\ stepCallResult' = result
          /\ IF stepFailed(result)
             THEN /\ Throw(stepErrorMessage(result), events)
                  /\ UNCHANGED <<stepResults, cursor, store>>
             ELSE /\ stepResults' = pushStepResult(stepResults, stepResult)
                  /\ store' = storeAfterStep(store, stepResult)
                  /\ events' = emitRunEvent(events, Ev("step_completed", stepResult.stepId))
                  /\ cursor' = nextStep(cursor)
                  /\ pc' = "loop"
                  /\ UNCHANGED <<runStatus, thrown>>
  /\ UNCHANGED <<nvars, pvars, mvars, cancelled, maxTurns, startingStepIndex, clarifications, turnCount,
                 calls, docPaths, docs, artifactResult, fallbackArtifacts, finalArtifacts,
                 writeIndex, pending, artifacts, mainArtifact>>
  /\ Notified

StepReturn == StepReturnFrom(StepResponses)

\* after the loop: the poll before reconciliation up to the start of the
\* artifact-assembly call
ArtifactBegin ==
  /\ pc = "loop"
  /\ cursor > Len(normalizedPlan.steps)
  /\ LET log == emitRunEvent(events, Ev("planning", <<"Writing artifacts">>))
     IN IF shouldCancel(cancelled)
        THEN /\ Throw(CancelledMessage, events)
             /\ UNCHANGED <<turnCount, calls>>
        ELSE /\ turnCount' = turnCount + 1
             /\ IF consumeTurn(turnCount, maxTurns)
                THEN /\ calls' = Append(calls, [kind |-> "artifact", index |-> 0])
                     /\ pc' = "artcall"
                     /\ events' = log
                     /\ UNCHANGED <<runStatus, thrown>>
                ELSE /\ Throw(BudgetMessage, log)
                     /\ UNCHANGED calls
  /\ UNCHANGED <<nvars, pvars, mvars, cancelled, maxTurns, startingStepIndex, clarifications, cursor,
                 stepResults, stepCallResult, store, docPaths, docs, artifactResult,
                 fallbackArtifacts, finalArtifacts, writeIndex, pending, artifacts,
                 mainArtifact>>
  /\ Notified

\* the artifact-assembly call returns one of the given results; reconciliation
ArtifactReturnFrom(responses) ==
  /\ pc = "artcall"
  /\ \E result \in responses :
       LET fallback == buildFallbackArtifacts(normalizedPlan, stepResults, docPaths,
                                              clarifications)
           raw == rawArtifactsOf(artifactsPayloadOf(result), fallback)
       IN /\ artifactResult' = result
          /\ fallbackArtifacts' = fallback
          /\ finalArtifacts' = reconcile(normalizedPlan.outputs, raw, fallback)
  /\ writeIndex' = 1
  /\ pc' = "write"
  /\ UNCHANGED <<nvars, pvars, mvars, runStatus, cancelled, events, maxTurns, startingStepIndex,
                 clarifications, turnCount, cursor, stepResults, calls, stepCallResult, store,
                 docPaths, docs, pending, artifacts, thrown, mainArtifact>>
  /\ UNCHANGED svars

ArtifactReturn == ArtifactReturnFrom(ArtifactResponses)

\* head of the write loop up to the read of the previous content
WriteBegin ==
  /\ pc = "write"
  /\ writeIndex <= Len(finalArtifacts)
  /\ LET normalizedPath == normalizeDocName(finalArtifacts[writeIndex].path)
     IN IF shouldCancel(cancelled)
        THEN /\ Throw(CancelledMessage, events)
             /\ UNCHANGED <<writeIndex, pending>>
        ELSE IF normalizedPath = EmptyStr
        THEN /\ writeIndex' = writeIndex + 1
             /\ UNCHANGED <<pc, runStatus, events, thrown, pending>>
        ELSE IF ensureDocsPath(normalizedPath) # NoError
        THEN /\ Throw(ensureDocsPath(normalizedPath), events)
             /\ UNCHANGED <<writeIndex, pending>>
        ELSE /\ pending' = [normalizedPath |-> normalizedPath,
                            previousContent |-> readOrEmpty(store, normalizedPath)]
             /\ pc' = "writing"
             /\ UNCHANGED <<runStatus, events, thrown, writeIndex>>
  /\ UNCHANGED <<nvars, pvars, mvars, cancelled, maxTurns, startingStepIndex, clarifications, turnCount,
                 cursor, stepResults, calls, stepCallResult, store, docPaths, docs, artifactResult,
                 fallbackArtifacts, finalArtifacts, artifacts, mainArtifact>>
  /\ Notified

\* fs.writeFile and the artifact_written report
WriteCommit ==
  /\ pc = "writing"
  /\ LET item == [relativePath |-> pending.normalizedPath,
                  content |-> finalArtifacts[writeIndex].content,
                  previousContent |-> pending.previousContent]
     IN /\ store' = (pending.normalizedPath :> item.content) @@ store
        /\ artifacts' = Append(artifacts, item)
        /\ events' = emitRunEvent(events, Ev("artifact_written", item.relativePath))
  /\ writeIndex' = writeIndex + 1
  /\ pending' = NoPending
  /\ pc' = "write"
  /\ UNCHANGED <<nvars, pvars, mvars, runStatus, cancelled, maxTurns, startingStepIndex, clarifications,
                 turnCount, cursor, stepResults, calls, stepCallResult, docPaths, docs,
                 artifactResult, fallbackArtifacts, finalArtifacts, thrown, mainArtifact>>
  /\ Notified

\* runAgent returns; POST /api/run reports done
RunReturn ==
  /\ pc = "write"
  /\ writeIndex > Len(finalArtifacts)
  /\ mainArtifact' = selectMainArtifact(artifacts)
  /\ runStatus' = "done"
  /\ events' = emitRunEvent(events, Ev("done", <<"Done">>))
  /\ pc' = "returned"
  /\ UNCHANGED <<nvars, pvars, mvars, cancelled, maxTurns, startingStepIndex, clarifications, turnCount,
                 cursor, stepResults, calls, stepCallResult, store, docPaths, docs, artifactResult,
                 fallbackArtifacts, finalArtifacts, writeIndex, pending, artifacts, thrown>>
  /\ Notified

Next ==
  \/ StartRun
  \/ Cancel
  \/ StepBegin
  \/ StepReturn
  \/ ArtifactBegin
  \/ ArtifactReturn
  \/ WriteBegin
  \/ WriteCommit
  \/ RunReturn

Spec == InitRun /\ [][Next]_vars

TypeRun ==
  /\ pc \in {"request", "rejected", "loop", "stepcall", "artcall", "write", "writing",
             "returned"}
  /\ runStatus \in {"none", "running", "done", "error", "cancelled"}
  /\ turnCount \in 0..(MAX_STEPS + 2)

(***************************************************************************)
(* Two runs.  The server keeps one RunState per run id in `runs`, and each *)
(* runAgent call has its own locals; the event loop executes one           *)
(* continuation at a time.  The run variables hold the run being executed, *)
(* `other` the suspended one; workspace/docs (store) is common to both.    *)
(***************************************************************************)
MaxPairSteps == 2

\* the RunState and runAgent locals of the run being executed
Context ==
  [prompt |-> prompt, plan |-> plan, normalizedPlan |-> normalizedPlan, pc |-> pc,
   runStatus |-> runStatus, cancelled |-> cancelled, events |-> events, maxTurns |-> maxTurns,
   startingStepIndex |-> startingStepIndex, clarifications |-> clarifications,
   turnCount |-> turnCount, cursor |-> cursor, stepResults |-> stepResults, calls |-> calls,
   stepCallResult |-> stepCallResult, docPaths |-> docPaths, docs |-> docs,
   artifactResult |-> artifactResult, fallbackArtifacts |-> fallbackArtifacts,
   finalArtifacts |-> finalArtifacts, writeIndex |-> writeIndex, pending |-> pending,
   artifacts |-> artifacts, thrown |-> thrown, mainArtifact |-> mainArtifact]

\* the event loop turns to the other run; its cancellation flag is `flag`
SwitchTo(flag) ==
  /\ current' = 3 - current
  /\ other' = Context
  /\ cancelled' = flag
  /\ prompt' = other.prompt
  /\ plan' = other.plan
  /\ normalizedPlan' = other.normalizedPlan
  /\ pc' = other.pc
  /\ runStatus' = other.runStatus
  /\ events' = other.events
  /\ maxTurns' = other.maxTurns
  /\ startingStepIndex' = other.startingStepIndex
  /\ clarifications' = other.clarifications
  /\ turnCount' = other.turnCount
  /\ cursor' = other.cursor
  /\ stepResults' = other.stepResults
  /\ calls' = other.calls
  /\ stepCallResult' = other.stepCallResult
  /\ docPaths' = other.docPaths
  /\ docs' = other.docs
  /\ artifactResult' = other.artifactResult
  /\ fallbackArtifacts' = other.fallbackArtifacts
  /\ finalArtifacts' = other.finalArtifacts
  /\ writeIndex' = other.writeIndex
  /\ pending' = other.pending
  /\ artifacts' = other.artifacts
  /\ thrown' = other.thrown
  /\ mainArtifact' = other.mainArtifact
  /\ UNCHANGED <<renormalizedPlan, npc, store, pvars>>
  /\ UNCHANGED svars

\* one cancellation flag for the whole server instead of one per RunState
SwitchSharingCancelFlag == SwitchTo(cancelled)

\* run.cancelled belongs to the RunState looked up by id
Switch == SwitchTo(other.cancelled)

\* a plan whose steps carry ids, run under a budget that ends it before the
\* artifact-assembly call, and a plan whose steps get generated ids
PairRequests ==
  { Request(<<"d", "o">>, TRUE, RunPlan(MaxPairSteps, << >>, << >>), EmptyStr, 0, MaxPairSteps),
    Request(<<"g", "o">>, TRUE,
            MkPlan(<<"G">>, StepList(1, 1, 0, FALSE, FALSE), AgentList(1, 1, 0, 0, 0), << >>, << >>),
            EmptyStr, 0, MAX_TURNS) }

PairStepResponses ==
  { Success(<<"notes">>),
    Failure("error_during_execution", << >>, TRUE, << <<"boom">> >>) }

PairArtifactResponses ==
  { Failure("error_during_execution", << >>, TRUE, << <<"boom">> >>),
    Success(<<LBrace, WithArtifacts(<<Art(BriefMd, <<"E1">>)>>), RBrace>>) }

InitPair ==
  /\ prompt = EmptyStr
  /\ plan = NoPlan
  /\ normalizedPlan = NoPlan
  /\ renormalizedPlan = NoPlan
  /\ npc = "candidate"
  /\ RunIdle
  /\ store = EmptyStore
  /\ PlanIdle
  /\ PairIdle
  /\ StreamIdle

NextPair ==
  \/ StartRunFrom(PairRequests)
  \/ Cancel
  \/ StepBegin
  \/ StepReturnFrom(PairStepResponses)
  \/ ArtifactBegin
  \/ ArtifactReturnFrom(PairArtifactResponses)
  \/ WriteBegin
  \/ WriteCommit
  \/ RunReturn
  \/ Switch

SpecPair == InitPair /\ [][NextPair]_vars

(***************************************************************************)
(* The run under fairness                                                   *)
(***************************************************************************)
MaxLiveSteps == 2

\* plans of every length run from the start or from the second step, under
\* a budget that runs out at the artifact-assembly call and under the default
LiveRequests ==
  UNION { { Request(<<"d", "o">>, TRUE, RunPlan(n, << >>, << >>), EmptyStr, start, budget) :
              start \in 0..1, budget \in {n, MAX_TURNS} } : n \in 1..MaxLiveSteps }

\* the continuation of a started run: at every position exactly one of these
\* is pending
Continue ==
  \/ StepBegin
  \/ StepReturn
  \/ ArtifactBegin
  \/ ArtifactReturnFrom(PairArtifactResponses)
  \/ WriteBegin
  \/ WriteCommit
  \/ RunReturn

NextLive == StartRunFrom(LiveRequests) \/ Cancel \/ Continue

\* the run under the assumption that every Prompt Engine call and every
\* document-store operation returns and every continuation is executed
SpecLive == InitPair /\ [][NextLive]_vars /\ WF_vars(Continue)

(***************************************************************************)
(* The event stream: GET /api/run/:id/events.  The handler is synchronous, *)
(* and so is emitRunEvent: each is one turn of the event loop.  The        *)
(* keep-alive timer writes ping frames to the response only; it reads and  *)
(* writes neither run.events nor run.listeners and is left out.            *)
(***************************************************************************)
\* a two-step plan under the default budget and under a budget that runs out
\* at the second step
StreamRequests ==
  { Request(<<"d", "o">>, TRUE, RunPlan(2, << >>, << >>), EmptyStr, 0, budget) :
      budget \in {1, MAX_TURNS} }

\* a handler that registers its listener and replays nothing
replayEventsNone(log) == << >>

\* run.events.forEach(sendEvent)
replayEvents(log) == log

\* GET /api/run/:id/events by a client, for the run being executed
Subscribe(c) ==
  /\ streams[c] = "none"
  /\ IF runStatus = "none"
     THEN /\ streams' = [streams EXCEPT ![c] = "notfound"]
          /\ UNCHANGED <<listeners, sent>>
     ELSE /\ streams' = [streams EXCEPT ![c] = "open"]
          /\ sent' = [sent EXCEPT ![c] = replayEvents(events)]
          /\ listeners' = listeners \cup {c}
  /\ UNCHANGED <<nvars, rvars, pvars, mvars>>

\* req.on("close"): the client went away
Close(c) ==
  /\ streams[c] = "open"
  /\ streams' = [streams EXCEPT ![c] = "closed"]
  /\ listeners' = listeners \ {c}
  /\ UNCHANGED <<nvars, rvars, pvars, mvars, sent>>

NextStream ==
  \/ StartRunFrom(StreamRequests)
  \/ Cancel
  \/ Continue
  \/ \E c \in Clients : Subscribe(c)
  \/ \E c \in Clients : Close(c)

SpecStream == InitPair /\ [][NextStream]_vars

(***************************************************************************)
(* The plan editor of the UI: `plan` is the editor's plan state, which     *)
(* POST /api/run later receives and runAgent normalizes.                   *)
(***************************************************************************)
MaxEditorSteps == 3

\* the plans the editor starts from: normalized plans whose steps got the
\* generated ids step-1..step-n
EditorPlans ==
  { normalizePlan(MkPlan(<<"G">>, StepList(n, 1, 0, FALSE, TRUE), AgentList(1, 1, 0, 0, 0),
                         << >>, << >>), <<"d", "o">>) :
      n \in 1..MaxEditorSteps }

InitEditor ==
  /\ prompt = <<"d", "o">>
  /\ plan \in EditorPlans
  /\ normalizedPlan = NoPlan
  /\ renormalizedPlan = NoPlan
  /\ npc = "candidate"
  /\ RunIdle
  /\ store = EmptyStore
  /\ PlanIdle
  /\ PairIdle
  /\ StreamIdle

\* handleAddStep
handleAddStep ==
  /\ npc = "candidate"
  /\ plan' = IF Len(plan.steps) >= MAX_STEPS
             THEN plan
             ELSE [plan EXCEPT !.steps =
                     Append(@, [id |-> StepId(Len(plan.steps) + 1),
                                title |-> <<"New step">>,
                                description |-> <<"Describe what should happen.">>,
                                agent |-> IF Len(plan.agents) > 0 THEN plan.agents[1].name
                                          ELSE WriterName])]
  /\ UNCHANGED <<prompt, normalizedPlan, renormalizedPlan, npc, rvars, pvars, mvars, svars>>

\* handleRemoveStep(index), index counted from 0
handleRemoveStep(index) ==
  /\ npc = "candidate"
  /\ plan' = [plan EXCEPT !.steps =
                [i \in 1..(Len(@) - 1) |-> IF i <= index THEN @[i] ELSE @[i + 1]]]
  /\ UNCHANGED <<prompt, normalizedPlan, renormalizedPlan, npc, rvars, pvars, mvars, svars>>

\* the edits, and the run of the edited plan as far as its normalization
NextEditor ==
  \/ handleAddStep
  \/ \E index \in 0..(Len(plan.steps) - 1) : handleRemoveStep(index)
  \/ Normalize

SpecEditor == InitEditor /\ [][NextEditor]_vars

(***************************************************************************)
(* Plan synthesis: createPlan                                               *)
(***************************************************************************)
\* String(x ?? fallback) of a JSON member that may be absent
StringOr(has, v, fallback) == IF has THEN v ELSE fallback

\* JSON values of the plan object the engine is asked for
JsonStep(hasTitle, title, hasAgent, agent) ==
  [isNull |-> FALSE, hasTitle |-> hasTitle, title |-> title, hasDescription |-> hasTitle,
   description |-> IF hasTitle THEN <<"D">> ELSE EmptyStr, hasAgent |-> hasAgent,
   agent |-> agent]
JsonAgent(hasName, name, hasRole, role) ==
  [isNull |-> FALSE, hasName |-> hasName, name |-> name, hasRole |-> hasRole, role |-> role]
JsonNull ==
  [isNull |-> TRUE]
JsonPlan(hasGoal, goal, hasSteps, steps, hasAgents, agents, hasOutputs, outputs, hasQs, qs) ==
  Members([hasArtifacts |-> FALSE, artifacts |-> << >>,
           hasGoal |-> hasGoal, interpretedGoal |-> goal,
           hasSteps |-> hasSteps, steps |-> steps,
           hasAgents |-> hasAgents, agents |-> agents,
           hasOutputs |-> hasOutputs, outputs |-> outputs,
           hasQuestions |-> hasQs, questions |-> qs])

\* the Prompt Engine call of createPlan rejects
Rejected == [subtype |-> "rejected", result |-> << >>, hasErrors |-> FALSE, errors |-> << >>]

JsonStepLists ==
  { << >>,
    <<JsonStep(TRUE, <<"T", "1">>, TRUE, AnaName)>>,
    <<JsonStep(FALSE, EmptyStr, FALSE, EmptyStr)>>,
    <<JsonStep(TRUE, <<"T", "1">>, TRUE, <<"Z", "e", "d">>), JsonStep(TRUE, <<"T", "2">>, FALSE, EmptyStr)>>,
    [i \in 1..(MAX_STEPS + 1) |-> JsonStep(TRUE, <<"T", ToString(i)>>, TRUE, AnaName)],
    <<JsonStep(TRUE, <<"T", "1">>, TRUE, AnaName), JsonNull>> }

JsonAgentLists ==
  { << >>,
    <<JsonAgent(TRUE, AnaName, TRUE, "Critic")>>,
    <<JsonAgent(TRUE, AnaName, FALSE, ""), JsonAgent(FALSE, EmptyStr, TRUE, "Bogus")>>,
    <<JsonNull>> }

\* successful responses whose text holds a JSON object
ParsablePlanResponses ==
  { Success(<<Prose, LBrace,
              JsonPlan(hasGoal, <<"G", "o", "a", "l">>, hasSteps, steps, hasAgents, agents,
                       hasLists, << <<"/", "P", "l", "a", "n">>, SourcesMd>>,
                       hasLists, << <<"Q", "1">>, EmptyStr >>),
              RBrace>>) :
      hasGoal \in BOOLEAN, hasSteps \in BOOLEAN, steps \in JsonStepLists,
      hasAgents \in BOOLEAN, agents \in JsonAgentLists, hasLists \in BOOLEAN }
  \cup { Success(<<LBrace, RBrace>>) }

\* the object of `Here is the plan: {"interpretedGoal":"x","steps":[],
\* "agents":[],"outputs":[],"questions":[]} Thanks!`
ExamplePlan == JsonPlan(TRUE, <<"x">>, TRUE, << >>, TRUE, << >>, TRUE, << >>, TRUE, << >>)

\* an object with one step
OneStepPlan ==
  JsonPlan(TRUE, <<"G">>, TRUE, <<JsonStep(TRUE, <<"T", "1">>, TRUE, AnaName)>>,
           FALSE, << >>, FALSE, << >>, FALSE, << >>)

\* successful responses with prose around the object
WrappedPlanResponses ==
  { Success(<<Prose, LBrace, ExamplePlan, RBrace, Prose>>),
    Success(<<LBrace, OneStepPlan, RBrace, Prose>>),
    Success(<<Prose, LBrace, OneStepPlan, RBrace, Prose>>),
    Success(<<Prose, LBrace, RBrace, Prose>>) }

\* failed calls, and successful ones whose text holds no JSON object
UnparsablePlanResponses ==
  { Failure("error_during_execution", << >>, TRUE, << <<"boom">> >>),
    Success(<<LBrace, OneStepPlan, RBrace, Prose, RBrace>>),
    Success(<<LBrace, RBrace, Prose, LBrace, OneStepPlan, RBrace>>),
    Success(<<LBrace, OneStepPlan>>),
    Success(<<OneStepPlan, RBrace>>),
    Success(<<LBrace, OneStepPlan, OneStepPlan, RBrace>>),
    Failure("error_max_turns",
            <<LBrace, JsonPlan(TRUE, <<"G">>, FALSE, << >>, FALSE, << >>, FALSE, << >>, FALSE, << >>),
              RBrace>>, FALSE, << >>),
    Success(<< >>),
    Success(<<Prose>>),
    Success(<<Prose, RBrace>>),
    Success(<<LBrace, Prose>>),
    Success(<<RBrace, Prose, LBrace>>),
    Success(<<LBrace, Prose, RBrace>>) }

PlanResponses ==
  ParsablePlanResponses \cup WrappedPlanResponses \cup UnparsablePlanResponses \cup {Rejected}

HasNull(list) == \E i \in 1..Len(list) : list[i].isNull

\* createPlan lines 416-438: rawPlan from the parsed object
rawPlanOf(parsed) ==
  [interpretedGoal |-> StringOr(parsed.hasGoal, parsed.interpretedGoal, EmptyStr),
   steps |-> IF parsed.hasSteps
             THEN [i \in 1..Len(parsed.steps) |->
                     LET step == parsed.steps[i]
                     IN [id |-> StepId(i),
                         title |-> StringOr(step.hasTitle, step.title, EmptyStr),
                         description |-> StringOr(step.hasDescription, step.description, EmptyStr),
                         agent |-> StringOr(step.hasAgent, step.agent, EmptyStr)]]
             ELSE << >>,
   agents |-> IF parsed.hasAgents
              THEN [i \in 1..Len(parsed.agents) |->
                      LET agent == parsed.agents[i]
                      IN [name |-> StringOr(agent.hasName, agent.name, EmptyStr),
                          role |-> StringOr(agent.hasRole, agent.role, "Writer")]]
              ELSE << >>,
   outputs |-> IF parsed.hasOutputs THEN parsed.outputs ELSE << >>,
   questions |-> IF parsed.hasQuestions THEN FilterTruthy(parsed.questions) ELSE << >>]

\* an object without members: every member is absent
EmptyObject ==
  [hasGoal |-> FALSE, interpretedGoal |-> EmptyStr, hasSteps |-> FALSE, steps |-> << >>,
   hasAgents |-> FALSE, agents |-> << >>, hasOutputs |-> FALSE, outputs |-> << >>,
   hasQuestions |-> FALSE, questions |-> << >>]

InitPlan ==
  /\ prompt \in PromptInputs
  /\ plan = NoPlan
  /\ normalizedPlan = NoPlan
  /\ renormalizedPlan = NoPlan
  /\ npc = "candidate"
  /\ RunIdle
  /\ store = EmptyStore
  /\ PlanIdle
  /\ PairIdle
  /\ StreamIdle

\* createPlan up to the start of its Prompt Engine call
CreatePlanBegin ==
  /\ ppc = "idle"
  /\ planCalls' = planCalls + 1
  /\ ppc' = "calling"
  /\ UNCHANGED <<nvars, rvars, mvars, planResult, planParsed, createdPlan>>
  /\ UNCHANGED svars

\* the call settles; createPlan returns or throws
CreatePlanReturn ==
  /\ ppc = "calling"
  /\ \E result \in PlanResponses :
       LET parsed == parseJson(result.result)
           object == IF parsed.value = NoMembers THEN EmptyObject ELSE parsed.value
       IN /\ planResult' = result
          /\ planParsed' = IF result.subtype = "success" THEN parsed ELSE NoParse
          /\ IF result = Rejected
             THEN /\ ppc' = "failed"
                  /\ UNCHANGED createdPlan
             ELSE IF result.subtype # "success" \/ ~parsed.ok
             THEN /\ createdPlan' = buildFallbackPlan(prompt, << >>)
                  /\ ppc' = "returned"
             ELSE IF (object.hasSteps /\ HasNull(object.steps))
                     \/ (object.hasAgents /\ HasNull(object.agents))
             THEN /\ ppc' = "failed"
                  /\ UNCHANGED createdPlan
             ELSE /\ createdPlan' = normalizePlan(rawPlanOf(object), prompt)
                  /\ ppc' = "returned"
  /\ UNCHANGED <<nvars, rvars, mvars, planCalls>>
  /\ UNCHANGED svars

NextPlan == CreatePlanBegin \/ CreatePlanReturn

SpecPlan == InitPlan /\ [][NextPlan]_vars

(***************************************************************************)
(* The main-artifact selection, entered from the end of the write loop     *)
(* with any list of written artifacts                                       *)
(***************************************************************************)
MaxWritten == 3

WrittenNameInputs ==
  { NextActionsMd, SourcesMd, PlanMd, BriefMd,
    <<"o", "u", "t", "l", "i", "n", "e", ".", "m", "d">>,
    <<"C", "R", "I", "T", "I", "Q", "U", "E", ".", "m", "d">>,
    <<"O", "p", "e", "n", " ", "q", "u", "e", "s", "t", "i", "o", "n", "s", ".", "m", "d">> }

WrittenInputs ==
  UNION { [1..n -> { [relativePath |-> name, content |-> <<"c">>, previousContent |-> EmptyStr] :
                       name \in WrittenNameInputs }] : n \in 0..MaxWritten }

InitMain ==
  /\ prompt = <<"d", "o">>
  /\ plan = NoPlan
  /\ normalizedPlan = NoPlan
  /\ renormalizedPlan = NoPlan
  /\ npc = "candidate"
  /\ pc = "write"
  /\ runStatus = "running"
  /\ cancelled = FALSE
  /\ events = << >>
  /\ maxTurns = MAX_TURNS
  /\ startingStepIndex = 0
  /\ clarifications = EmptyStr
  /\ turnCount = 0
  /\ cursor = 1
  /\ stepResults = << >>
  /\ calls = << >>
  /\ stepCallResult = NoResult
  /\ store = EmptyStore
  /\ docPaths = << >>
  /\ docs = EmptyStore
  /\ artifactResult = NoResult
  /\ fallbackArtifacts = << >>
  /\ finalArtifacts = << >>
  /\ writeIndex = 1
  /\ pending = NoPending
  /\ artifacts \in WrittenInputs
  /\ thrown = NoError
  /\ mainArtifact = EmptyStr
  /\ PlanIdle
  /\ PairIdle
  /\ StreamIdle

NextMain == RunReturn

SpecMain == InitMain /\ [][NextMain]_vars

(***************************************************************************)
(* Properties of the normalizer                                            *)
(***************************************************************************)
AgentNames(p) == {p.agents[k].name : k \in 1..Len(p.agents)}

\* C1: the plan normalizePlan returns has 1..8 steps, 1..4 agents, at most 3
\* questions, outputs that are pairwise distinct case-insensitively and contain
\* Next Actions.md, Open Questions.md and Sources.md, and an output that is not
\* one of the five reserved names.
C1_NormalizedWithinLimits ==
  npc # "candidate" =>
    LET n == normalizedPlan IN
      /\ Len(n.steps) \in 1..8
      /\ Len(n.agents) \in 1..4
      /\ Len(n.questions) <= 3
      /\ \A i, j \in 1..Len(n.outputs) :
           i # j => toLowerCase(n.outputs[i]) # toLowerCase(n.outputs[j])
      /\ \A r \in {NextActionsMd, OpenQuestionsMd, SourcesMd} :
           \E i \in 1..Len(n.outputs) : toLowerCase(n.outputs[i]) = toLowerCase(r)
      /\ \E i \in 1..Len(n.outputs) :
           toLowerCase(n.outputs[i]) \notin
             {toLowerCase(r) : r \in {NextActionsMd, OpenQuestionsMd, SourcesMd,
                                      OutlineMd, CritiqueMd}}

C1_Witness ==
  /\ npc = "normalized"
  /\ Len(plan.steps) > 8 /\ Len(normalizedPlan.steps) = 8
  /\ Len(plan.agents) > 4 /\ Len(normalizedPlan.agents) = 4

\* C2: normalizing a normalized plan again (same prompt) returns it unchanged.
C2_Idempotent ==
  npc = "renormalized" => renormalizedPlan = normalizedPlan

\* C3: every step of a normalized plan names an agent of that plan; a candidate
\* step at (0-based) position i keeps its agent when that agent survived and
\* otherwise gets agents[i mod agents.length].
C3_StepAgentsResolve ==
  npc # "candidate" =>
    LET n == normalizedPlan IN
      /\ \A i \in 1..Len(n.steps) : n.steps[i].agent \in AgentNames(n)
      /\ \A i \in 1..Min(8, Len(plan.steps)) :
           IF plan.steps[i].agent \in AgentNames(n)
           THEN n.steps[i].agent = plan.steps[i].agent
           ELSE n.steps[i].agent = n.agents[((i - 1) % Len(n.agents)) + 1].name

C3_Witness ==
  /\ npc = "normalized"
  /\ Len(normalizedPlan.agents) = 3
  /\ \E i \in 1..Len(normalizedPlan.steps) :
       /\ i > 3
       /\ plan.steps[i].agent \notin AgentNames(normalizedPlan)
       /\ normalizedPlan.steps[i].agent # normalizedPlan.agents[1].name
  /\ \E i \in 1..Len(normalizedPlan.steps) :
       /\ plan.steps[i].agent \in AgentNames(normalizedPlan)
       /\ plan.steps[i].agent # normalizedPlan.agents[((i - 1) % 3) + 1].name

FixedFallbackSteps ==
  <<[id |-> <<"step-", "1">>, title |-> <<"Review workspace context">>,
     description |-> <<"Scan the workspace documents for relevant facts and context.">>,
     agent |-> ResearcherName],
    [id |-> <<"step-", "2">>, title |-> <<"Draft outline and key points">>,
     description |-> <<"Outline the main deliverable and capture key points to address the prompt.">>,
     agent |-> WriterName],
    [id |-> <<"step-", "3">>, title |-> <<"Critique and refine">>,
     description |-> <<"Surface risks, gaps, and questions to improve the final outputs.">>,
     agent |-> CriticName],
    [id |-> <<"step-", "4">>, title |-> <<"Assemble artifacts">>,
     description |-> <<"Compile the deliverable, next actions, open questions, and sources.">>,
     agent |-> OrganizerName]>>

\* C4: a candidate with zero steps normalizes to the fixed fallback plan (steps
\* step-1..step-4 in order, agents Researcher, Writer, Critic, Organizer),
\* whatever its agents, goal or questions; no normalized plan has zero steps.
C4_ZeroStepsGiveFallback ==
  npc # "candidate" =>
    /\ Len(normalizedPlan.steps) > 0
    /\ Len(plan.steps) = 0 =>
         /\ normalizedPlan.steps = FixedFallbackSteps
         /\ normalizedPlan.agents =
              <<[name |-> ResearcherName, role |-> "Researcher"],
                [name |-> WriterName, role |-> "Writer"],
                [name |-> CriticName, role |-> "Critic"],
                [name |-> OrganizerName, role |-> "Organizer"]>>

C4_Witness ==
  /\ npc = "normalized"
  /\ Len(plan.steps) = 0
  /\ Len(plan.agents) > 0
  /\ plan.interpretedGoal # EmptyStr
  /\ Len(plan.questions) > 0
  /\ Len(normalizedPlan.steps) = 4

(***************************************************************************)
(* Properties of the run                                                    *)
(***************************************************************************)
Steps == normalizedPlan.steps
Outputs == normalizedPlan.outputs
Last(log) == log[Len(log)]
PathErrorMessage == <<"Only markdown files are allowed.">>

\* C5: a run with turn budget B >= 0 starts at most B Prompt Engine calls; it
\* fails with the turn-budget error exactly when one more call is needed, and
\* that call is not started.  Budget 2 with a 2-step plan never starts the
\* artifact-assembly call.
C5_CallsWithinBudget ==
  /\ Len(calls) <= maxTurns
  /\ thrown = BudgetMessage =>
       /\ Len(calls) = maxTurns
       /\ pc = "returned"
       /\ runStatus = "error"
       /\ Last(events) = Ev("error", BudgetMessage)
  /\ (pc = "returned" /\ runStatus = "done") => Len(calls) = Len(stepResults) + 1
  /\ (maxTurns = 2 /\ Len(Steps) = 2 /\ startingStepIndex = 0) =>
       /\ \A i \in 1..Len(calls) : calls[i].kind = "step"
       /\ (pc = "returned" /\ Len(stepResults) = 2 /\ ~cancelled) => thrown = BudgetMessage

C5_Witness ==
  /\ thrown = BudgetMessage
  /\ maxTurns = 2
  /\ Len(Steps) = 2
  /\ Len(stepResults) = 2
  /\ Len(calls) = 2

C6_AfterCancelledPoll ==
  (thrown = CancelledMessage /\ artifactResult = NoResult) =>
    /\ pc = "returned"
    /\ runStatus = "cancelled"
    /\ Last(events) = Ev("cancelled", <<"Cancelled">>)
    /\ Len(calls) = Len(stepResults)
    /\ \A j \in 1..Len(stepResults) :
         LET k == cursor - Len(stepResults) + j - 1
         IN /\ calls[j] = [kind |-> "step", index |-> k]
            /\ stepResults[j].stepId = Steps[k].id
    /\ cursor <= Len(Steps) =>
         ~\E i \in 1..Len(events) :
            events[i].event = "step_started" /\ events[i].data = Steps[cursor].id
    /\ artifacts = << >>
    /\ (Len(Steps) = 3 /\ startingStepIndex = 0 /\ cursor = 2) => Len(stepResults) = 1

C6_CancelledPoll ==
  (cancelled /\ pc = "loop" /\ pc' # "loop") =>
    /\ pc' = "returned"
    /\ runStatus' = "cancelled"
    /\ thrown' = CancelledMessage
    /\ calls' = calls
    /\ stepResults' = stepResults
    /\ events' = Append(events, Ev("cancelled", <<"Cancelled">>))

\* C6: when the cancellation flag is set at the poll before step k (or at the
\* poll before reconciliation), the run starts no Prompt Engine call, emits no
\* step_started for step k and terminates cancelled; its StepResults are those
\* of the steps completed before k, and nothing is written.  A 3-step plan
\* cancelled after step 1 has exactly 1 StepResult.
C6_CancelStopsRun == []C6_AfterCancelledPoll /\ [][C6_CancelledPoll]_vars

C6_Witness ==
  /\ thrown = CancelledMessage
  /\ Len(Steps) = 3
  /\ startingStepIndex = 0
  /\ cursor = 2
  /\ Len(stepResults) = 1
  /\ Len(calls) = 1

\* C7: on a run that ends done, the written artifacts are as many as the
\* planned outputs and the i-th written path equals the i-th planned output
\* case-insensitively.
C7_EveryOutputWrittenOnce ==
  runStatus = "done" =>
    /\ Len(artifacts) = Len(Outputs)
    /\ \A i \in 1..Len(artifacts) :
         toLowerCase(artifacts[i].relativePath) = toLowerCase(Outputs[i])

\* the artifacts the engine provided: the entries with a path of a successful,
\* parsable response
EngineProvided ==
  IF artifactResult \in UsableArtifactResponses
  THEN LET k == CHOOSE i \in 1..Len(artifactResult.result) :
                  artifactResult.result[i].t = "members"
       IN SelectSeq(artifactResult.result[k].v.artifacts, LAMBDA a : a.path # EmptyStr)
  ELSE << >>

EngineMatches(output) ==
  {j \in 1..Len(EngineProvided) :
     toLowerCase(EngineProvided[j].path) = toLowerCase(output)}

FallbackContents(output) ==
  {fallbackArtifacts[j].content : j \in
     {j \in 1..Len(fallbackArtifacts) :
        toLowerCase(fallbackArtifacts[j].path) = toLowerCase(output)}}

\* C8 as stated: engine match, else (engine list non-empty) the fallback
\* artifact, else empty content.
C8_ContentOrEmpty ==
  artifactResult # NoResult =>
    \A i \in 1..Len(Outputs) :
      LET hits == EngineMatches(Outputs[i]) IN
      IF hits # {}
      THEN finalArtifacts[i].content =
             EngineProvided[CHOOSE j \in hits : \A h \in hits : j <= h].content
      ELSE IF Len(EngineProvided) > 0
      THEN {finalArtifacts[i].content} = FallbackContents(Outputs[i])
      ELSE finalArtifacts[i].content = EmptyStr

\* C8 (amended): the content of each reconciled artifact is that of the first
\* engine-provided artifact matching the planned name case-insensitively and,
\* when there is none (no match, or no usable engine list at all), that of the
\* fallback-built artifact of that name.  With outputs Brief.md, Next
\* Actions.md, Open Questions.md, Sources.md and an engine list of Brief.md and
\* Sources.md, the other two carry the fallback templates.
C8_ContentEngineElseFallback ==
  artifactResult # NoResult =>
    /\ Len(finalArtifacts) = Len(Outputs)
    /\ \A i \in 1..Len(Outputs) :
         LET hits == EngineMatches(Outputs[i]) IN
         IF hits # {}
         THEN finalArtifacts[i].content =
                EngineProvided[CHOOSE j \in hits : \A h \in hits : j <= h].content
         ELSE {finalArtifacts[i].content} = FallbackContents(Outputs[i])
    /\ ( /\ Outputs = <<BriefMd, NextActionsMd, OpenQuestionsMd, SourcesMd>>
         /\ [i \in 1..Len(EngineProvided) |-> EngineProvided[i].path] = <<BriefMd, SourcesMd>>
         /\ normalizedPlan.questions = << >> ) =>
         [i \in 1..4 |-> finalArtifacts[i].content] =
           << <<"E1">>,
              <<"# Next Actions\n\n- Draft next steps based on the brief.\n- Validate open questions with stakeholders.">>,
              <<"# Open Questions\n\n", "- None noted.">>,
              <<"E2">> >>

C8_Witness ==
  /\ pc = "write"
  /\ Outputs = <<BriefMd, NextActionsMd, OpenQuestionsMd, SourcesMd>>
  /\ [i \in 1..Len(EngineProvided) |-> EngineProvided[i].path] = <<BriefMd, SourcesMd>>
  /\ finalArtifacts[1].content = <<"E1">>
  /\ finalArtifacts[2].content # EmptyStr

StorableOutputs ==
  \A i \in 1..Len(Outputs) :
    normalizeDocName(Outputs[i]) # EmptyStr => ensureDocsPath(normalizeDocName(Outputs[i])) = NoError

\* the reconciled artifacts the write loop does not skip
NamedArtifacts(list) == SelectSeq(list, LAMBDA a : normalizeDocName(a.path) # EmptyStr)

IsFailure(result) == result.subtype \notin {"none", "success"}

\* C10 as stated: a non-success result of a step call and of the
\* artifact-assembly call both end the run with an error.
C10_EveryFailureFatal ==
  /\ IsFailure(stepCallResult) => (pc = "returned" /\ thrown # NoError)
  /\ IsFailure(artifactResult) => (pc = "returned" /\ thrown # NoError)

\* C10 (amended): a non-success result is fatal for a step call only: the run
\* ends at once with an error carrying the engine's detail and never reaches
\* the artifact phase.  A non-success result of the artifact-assembly call is
\* not an error: the run falls back on the fallback artifacts and goes on.
C10_OnlyStepFailureFatal ==
  /\ IsFailure(stepCallResult) =>
       /\ pc = "returned"
       /\ thrown \in {<<"boom", "; ", "bang">>, <<"Agent step failed.">>}
       /\ runStatus \in {"error", "cancelled"}
       /\ runStatus = "cancelled" => cancelled
       /\ runStatus = "error" => Last(events) = Ev("error", thrown)
       /\ Len(stepResults) = Len(calls) - 1
       /\ artifactResult = NoResult
       /\ artifacts = << >>
  /\ IsFailure(artifactResult) =>
       /\ finalArtifacts = fallbackArtifacts
       /\ thrown \in {NoError, CancelledMessage, PathErrorMessage}
       /\ (pc = "returned" /\ thrown = NoError) => runStatus = "done"

C10_Witness ==
  /\ runStatus = "done"
  /\ artifactResult.subtype = "error_max_turns"
  /\ Len(artifacts) = Len(Outputs)

CountEvents(kind) == Cardinality({i \in 1..Len(events) : events[i].event = kind})

\* C11: when the Prompt Engine returns non-success for step k, runAgent throws
\* an error whose message is the engine's reported errors (joined), the run ends
\* with the error event carrying it (cancelled if a cancel request came in
\* meanwhile); the engine was called once for step k, no StepResult is recorded
\* for step k, no later step is started, the artifact-assembly call is never
\* made and the document store is as it was when the run started.
C11_StepFailureAbortsRun ==
  IsFailure(stepCallResult) =>
    /\ pc = "returned"
    /\ IF stepCallResult.hasErrors
       THEN thrown = Join(stepCallResult.errors, <<"; ">>)
       ELSE thrown = <<"Agent step failed.">>
    /\ runStatus \in {"error", "cancelled"}
    /\ runStatus = "error" => Last(events) = Ev("error", thrown)
    /\ runStatus = "cancelled" => cancelled
    /\ Cardinality({i \in 1..Len(calls) : calls[i] = [kind |-> "step", index |-> cursor]}) = 1
    /\ Last(calls) = [kind |-> "step", index |-> cursor]
    /\ Len(stepResults) = Len(calls) - 1
    /\ \A j \in 1..Len(stepResults) :
         /\ calls[j].index < cursor
         /\ stepResults[j].stepId = Steps[calls[j].index].id
    /\ CountEvents("step_started") = Len(calls)
    /\ CountEvents("step_completed") = Len(calls) - 1
    /\ \A i \in 1..Len(events) :
         events[i].event = "step_started" =>
           \E k \in 1..cursor : events[i].data = Steps[k].id
    /\ \A i \in 1..Len(calls) : calls[i].kind = "step"
    /\ artifactResult = NoResult
    /\ artifacts = << >>
    /\ CountEvents("artifact_written") = 0
    /\ store = docs

C11_Witness ==
  /\ IsFailure(stepCallResult)
  /\ stepCallResult.hasErrors
  /\ runStatus = "error"
  /\ Len(Steps) = 3
  /\ cursor = 2
  /\ Len(stepResults) = 1

(***************************************************************************)
(* Properties of plan synthesis                                             *)
(***************************************************************************)
\* the invariants of a normalized plan
WithinLimits(n) ==
  /\ Len(n.steps) \in 1..8
  /\ Len(n.agents) \in 1..4
  /\ Len(n.questions) <= 3
  /\ \A i \in 1..Len(n.steps) : n.steps[i].agent \in AgentNames(n)
  /\ \A i, j \in 1..Len(n.outputs) :
       i # j => toLowerCase(n.outputs[i]) # toLowerCase(n.outputs[j])
  /\ \A r \in {NextActionsMd, OpenQuestionsMd, SourcesMd} :
       \E i \in 1..Len(n.outputs) : toLowerCase(n.outputs[i]) = toLowerCase(r)
  /\ \E i \in 1..Len(n.outputs) : ~IsReserved(n.outputs[i])

\* what createPlan owes for the outcome it got
CreatePlanAnswer ==
  /\ planCalls = 1
  /\ ppc = "returned"
  /\ WithinLimits(createdPlan)
  /\ planResult \in UnparsablePlanResponses =>
       /\ createdPlan.steps = FixedFallbackSteps
       /\ createdPlan.outputs = <<BriefMd, NextActionsMd, OpenQuestionsMd, SourcesMd>>
       /\ createdPlan.interpretedGoal = slice0(prompt, 120)

\* C12: whatever the Prompt Engine call produces, createPlan makes exactly one
\* call, does not fail and returns a plan with the invariants of a normalized
\* plan; for a failed call or a text without a JSON object it is the fixed
\* fallback plan with outputs Brief.md, Next Actions.md, Open Questions.md,
\* Sources.md.
C12_CreatePlanNeverFails ==
  /\ planCalls <= 1
  /\ ppc \notin {"idle", "calling"} => CreatePlanAnswer

(***************************************************************************)
(* Properties of the main-artifact selection                                *)
(***************************************************************************)
WrittenPaths == [i \in 1..Len(artifacts) |-> artifacts[i].relativePath]

ReservedName(name) ==
  toLowerCase(name) \in
    { <<"n", "e", "x", "t", " ", "a", "c", "t", "i", "o", "n", "s", ".", "m", "d">>,
      <<"o", "p", "e", "n", " ", "q", "u", "e", "s", "t", "i", "o", "n", "s", ".", "m", "d">>,
      <<"s", "o", "u", "r", "c", "e", "s", ".", "m", "d">>,
      <<"o", "u", "t", "l", "i", "n", "e", ".", "m", "d">>,
      <<"c", "r", "i", "t", "i", "q", "u", "e", ".", "m", "d">> }

\* C13: the mainArtifact a run returns is the path of the first written
\* artifact whose name is not, case-insensitively, one of Next Actions.md, Open
\* Questions.md, Sources.md, Outline.md, Critique.md; the first written
\* artifact if all are reserved; Brief.md if nothing was written.  For written
\* artifacts Next Actions.md, Sources.md, Plan.md it is Plan.md.
C13_MainArtifactSelection ==
  runStatus = "done" =>
    /\ \A i \in 1..Len(WrittenPaths) :
         (~ReservedName(WrittenPaths[i]) /\ \A j \in 1..(i - 1) : ReservedName(WrittenPaths[j]))
           => mainArtifact = WrittenPaths[i]
    /\ (Len(WrittenPaths) > 0 /\ \A i \in 1..Len(WrittenPaths) : ReservedName(WrittenPaths[i]))
         => mainArtifact = WrittenPaths[1]
    /\ Len(WrittenPaths) = 0 => mainArtifact = <<"B", "r", "i", "e", "f", ".", "m", "d">>
    /\ WrittenPaths = <<NextActionsMd, SourcesMd, PlanMd>> => mainArtifact = PlanMd

C13_Witness ==
  /\ runStatus = "done"
  /\ WrittenPaths = <<NextActionsMd, SourcesMd, PlanMd>>
  /\ mainArtifact = PlanMd

\* Prompt Engine calls that have returned, and calls started but not returned
ReturnedCalls ==
  Len(stepResults) + (IF IsFailure(stepCallResult) THEN 1 ELSE 0)
                   + (IF artifactResult # NoResult THEN 1 ELSE 0)
InFlight == Len(calls) - ReturnedCalls

C14_CallsInPlanOrder ==
  (runStatus # "none" /\ startingStepIndex \in 0..Len(Steps)) =>
    /\ \A j \in 1..Len(calls) :
         IF calls[j].kind = "step"
         THEN /\ calls[j].index = startingStepIndex + j
              /\ calls[j].index <= Len(Steps)
         ELSE /\ j = Len(Steps) - startingStepIndex + 1
              /\ j = Len(calls)
    /\ \A j \in 1..Len(stepResults) : stepResults[j].stepId = Steps[startingStepIndex + j].id
    /\ Len(stepResults) >= Len(calls) - 1
    /\ InFlight \in {0, 1}
    /\ InFlight = 1 <=> pc \in {"stepcall", "artcall"}
    /\ runStatus = "done" => Len(calls) = Len(Steps) - startingStepIndex + 1

C14_CallStart ==
  calls' # calls =>
    /\ pc = "loop"
    /\ InFlight = 0
    /\ Len(stepResults) = Len(calls)
    /\ \E call \in [kind : {"step", "artifact"}, index : 0..MAX_STEPS] : calls' = Append(calls, call)

\* C14: a run with starting index s, 0 <= s <= len(steps), calls the Prompt
\* Engine for the steps at positions s, s+1, ... in plan order, once each and
\* never for a step before s; a call is started only when every earlier call
\* has returned successfully, so a run never has two calls in flight.
C14_SequentialFromStart == []C14_CallsInPlanOrder /\ [][C14_CallStart]_vars

C14_Witness ==
  /\ runStatus = "done"
  /\ startingStepIndex = 1
  /\ Len(Steps) = 3
  /\ calls = <<[kind |-> "step", index |-> 2], [kind |-> "step", index |-> 3],
               [kind |-> "artifact", index |-> 0]>>

StepsToRun == Len(Steps) - firstStepToRun(Steps, startingStepIndex) + 1

C15_StoreUntouchedBeforeAssembly ==
  (runStatus # "none" /\ artifactResult = NoResult) =>
    /\ store = docs
    /\ artifacts = << >>
    /\ CountEvents("artifact_written") = 0

C15_WriteOnlyAfterAssembly ==
  store' # store =>
    /\ pc = "writing"
    /\ artifactResult # NoResult
    /\ cursor = Len(Steps) + 1
    /\ Len(stepResults) = StepsToRun
    /\ Len(artifacts') = Len(artifacts) + 1

\* C15: a run writes to the document store only after all of its steps have
\* completed and its artifact-assembly call has returned; until then the store
\* is as it was when the run started, so a run that ends cancelled, with a
\* failed step or with the turn budget exceeded before that point leaves the
\* store untouched.
C15_NoWriteDuringSteps == []C15_StoreUntouchedBeforeAssembly /\ [][C15_WriteOnlyAfterAssembly]_vars

C15_Witness ==
  /\ pc = "returned"
  /\ thrown = BudgetMessage
  /\ Len(stepResults) = 2
  /\ artifactResult = NoResult
  /\ store = docs
  /\ store # EmptyStore

(***************************************************************************)
(* Properties of concurrent runs                                            *)
(***************************************************************************)
RunIds == {1, 2}
RunView(id) == IF current = id THEN Context ELSE other

C16_OwnBudgetFlagAndResults ==
  \A id \in RunIds :
    LET r == RunView(id) IN
      /\ r.turnCount = Len(r.calls) + (IF r.thrown = BudgetMessage THEN 1 ELSE 0)
      /\ Len(r.calls) <= r.maxTurns
      /\ r.thrown = BudgetMessage => Len(r.calls) = r.maxTurns
      /\ r.runStatus = "cancelled" => r.cancelled
      /\ Len(r.stepResults) <= Len(r.calls)
      /\ \A j \in 1..Len(r.stepResults) :
           LET step == r.normalizedPlan.steps[r.calls[j].index]
           IN /\ r.calls[j].kind = "step"
              /\ r.stepResults[j].stepId = step.id
              /\ r.stepResults[j].title = step.title
              /\ r.stepResults[j].agent = step.agent

C16_StepOfOneRun ==
  /\ current' = current => other' = other
  /\ current' # current => (other' = Context /\ Context' = other)
  /\ \A id \in RunIds :
       (RunView(id)'.cancelled /\ ~RunView(id).cancelled) => (current = id /\ current' = id)
  /\ \A id \in RunIds :
       RunView(id)'.turnCount # RunView(id).turnCount => (current = id /\ current' = id)

\* C16: in every interleaving of two runs, a run's turn counter counts its own
\* Prompt Engine calls only, a run's cancellation flag is set only by a cancel
\* request addressed to it (so a run ends cancelled only if it was itself asked
\* to), and a run's StepResults are results of the steps of its own plan; a
\* step of one run changes nothing of the other run but the document store.
C16_RunsIndependent == []C16_OwnBudgetFlagAndResults /\ [][C16_StepOfOneRun]_vars

C16_Witness ==
  \E a, b \in RunIds :
    /\ a # b
    /\ RunView(a).runStatus = "cancelled"
    /\ RunView(b).runStatus = "done"
    /\ ~RunView(b).cancelled
    /\ Len(RunView(a).stepResults) = 1
    /\ Len(RunView(b).stepResults) = 1
    /\ RunView(a).stepResults[1].stepId # RunView(b).stepResults[1].stepId
    /\ RunView(a).maxTurns # RunView(b).maxTurns

\* C17 as stated: the predicate is polled before each step and before
\* reconciliation only, so a run that has started its artifact-assembly call is
\* out of reach of a cancel request.
C17_PolledAtTwoKindsOfPoints ==
  (Len(calls) > 0 /\ Last(calls).kind = "artifact") =>
    (thrown # CancelledMessage /\ runStatus # "cancelled")

WritePollAhead == pc = "write" /\ writeIndex <= Len(finalArtifacts)

C17_Poll ==
  /\ (thrown' = CancelledMessage /\ thrown # CancelledMessage) =>
       /\ cancelled
       /\ pc = "loop" \/ WritePollAhead
       /\ pc' = "returned"
       /\ runStatus' = "cancelled"
       /\ calls' = calls
       /\ stepResults' = stepResults
       /\ store' = store
       /\ artifacts' = artifacts
  /\ (cancelled /\ pc = "loop" /\ pc' # pc) => thrown' = CancelledMessage
  /\ (cancelled /\ WritePollAhead /\ (pc' # pc \/ writeIndex' # writeIndex)) =>
       thrown' = CancelledMessage
  /\ (pc = "writing" /\ pc' # pc) => Len(artifacts') = Len(artifacts) + 1
  /\ (pc = "write" /\ ~WritePollAhead /\ pc' # pc) => runStatus' = "done"

C17_CancelledInWriteLoop ==
  (thrown = CancelledMessage /\ artifactResult # NoResult) =>
    /\ runStatus = "cancelled"
    /\ Len(artifacts) < Len(finalArtifacts)
    /\ \A i \in 1..Len(artifacts) :
         /\ artifacts[i].relativePath = normalizeDocName(NamedArtifacts(finalArtifacts)[i].path)
         /\ store[artifacts[i].relativePath] \in
              {NamedArtifacts(finalArtifacts)[j].content : j \in 1..Len(artifacts)}

\* C17 (amended): the cancellation predicate is polled at three kinds of
\* points, before each step, once before the artifact-assembly call and before
\* each artifact write, and nowhere else.  A cancellation requested after the
\* pre-reconciliation poll ends the run cancelled at the next write-loop poll,
\* with the documents written before that poll left in the store; requested
\* once the last write-loop poll has passed, it changes nothing.
C17_PolledAtThreeKindsOfPoints == []C17_CancelledInWriteLoop /\ [][C17_Poll]_vars

C17_Witness ==
  /\ thrown = CancelledMessage
  /\ runStatus = "cancelled"
  /\ Len(artifacts) = 2
  /\ Len(finalArtifacts) = 4
  /\ store # docs

\* C18 as stated: the result of a step call that returns after a cancel
\* request is dropped: no StepResult is recorded and no step_completed event is
\* reported for that step.
C18_InFlightResultDiscarded ==
  [][(cancelled /\ pc = "stepcall") =>
       (stepResults' = stepResults /\ CountEvents("step_completed")' = CountEvents("step_completed"))]_vars

\* a cancel request is pending and a poll lies ahead of the run
CancelPending ==
  cancelled /\ (pc \in {"stepcall", "artcall", "loop"} \/ WritePollAhead)

C18_InFlightCall ==
  /\ (cancelled /\ pc = "stepcall" /\ pc' # pc) =>
       /\ stepCallResult' \in StepResponses
       /\ IF stepCallResult'.subtype = "success"
          THEN /\ pc' = "loop"
               /\ stepResults' = Append(stepResults,
                                        [stepId |-> Steps[cursor].id, title |-> Steps[cursor].title,
                                         agent |-> Steps[cursor].agent,
                                         output |-> stepCallResult'.result])
               /\ events' = Append(events, Ev("step_completed", Steps[cursor].id))
               /\ runStatus' = "running"
          ELSE /\ pc' = "returned"
               /\ stepResults' = stepResults
               /\ runStatus' = "cancelled"
               /\ Last(events') = Ev("cancelled", <<"Cancelled">>)
  /\ (cancelled /\ pc = "artcall" /\ pc' # pc) =>
       /\ artifactResult' \in ArtifactResponses
       /\ pc' = "write"
       /\ WritePollAhead'
  /\ CancelPending =>
       /\ calls' = calls
       /\ store' = store
       /\ artifacts' = artifacts
       /\ CountEvents("artifact_written")' = CountEvents("artifact_written")
       /\ CountEvents("step_started")' = CountEvents("step_started")
       /\ runStatus' \in {"running", "cancelled"}
       /\ CancelPending' \/ (pc' = "returned" /\ runStatus' = "cancelled")

\* C18 (amended): a Prompt Engine call that is in flight when cancellation is
\* requested is not interrupted.  When a step call then returns successfully
\* its StepResult is still recorded and step_completed is reported; when it
\* returns non-success the run ends cancelled, not with the error.  After the
\* artifact-assembly call returns, reconciliation runs but nothing is written.
\* In every case the run starts no further step or call, writes nothing more
\* and terminates cancelled at its next poll.
C18_InFlightCallCompletes == [][C18_InFlightCall]_vars

C18_Witness ==
  /\ pc = "returned"
  /\ runStatus = "cancelled"
  /\ IsFailure(stepCallResult)
  /\ thrown = <<"boom", "; ", "bang">>
  /\ Len(stepResults) = 1

TerminalKinds == {"done", "error", "cancelled"}
TerminalEvents == {i \in 1..Len(events) : events[i].event \in TerminalKinds}

C19_OneTerminalEventLast ==
  /\ Cardinality(TerminalEvents) <= 1
  /\ TerminalEvents # {} <=> runStatus \in TerminalKinds
  /\ runStatus \in TerminalKinds =>
       /\ TerminalEvents = {Len(events)}
       /\ Last(events).event = runStatus
       /\ pc = "returned"
  /\ runStatus = "running" =>
       /\ pc \notin {"request", "rejected", "returned"}
       /\ events[1].event = "started"
  /\ pc = "returned" => runStatus \in TerminalKinds

C19_TerminalIsFinal ==
  runStatus \in TerminalKinds => (runStatus' = runStatus /\ events' = events)

\* C19: the event log of a run that has ended holds exactly one terminal event
\* (done, error or cancelled), a running run's log holds none; the terminal
\* event is the last event of the log, the run's status is its kind, and after
\* it neither the log nor the status changes.
C19_ExactlyOneTerminalEvent == []C19_OneTerminalEventLast /\ [][C19_TerminalIsFinal]_vars

C19_Witness ==
  /\ runStatus = "cancelled"
  /\ Last(events).event = "cancelled"
  /\ CountEvents("step_completed") = 2
  /\ CountEvents("artifact_written") = 1

C20_CallsBounded ==
  /\ Len(calls) <= Len(Steps) + 1
  /\ Len(calls) <= StepsToRun + 1
  /\ cursor <= Len(Steps) + 1
  /\ writeIndex <= Len(finalArtifacts) + 1

\* C20: if every Prompt Engine call and every store operation returns, a
\* started run eventually emits its terminal event (done, error or cancelled),
\* having started at most len(steps)+1 Prompt Engine calls.
C20_RunTerminates ==
  /\ []C20_CallsBounded
  /\ (runStatus = "running") ~> (runStatus \in TerminalKinds /\ TerminalEvents # {})

C20_Witness ==
  /\ runStatus = "done"
  /\ Len(Steps) = 2
  /\ startingStepIndex = 0
  /\ Len(calls) = 3
  /\ Len(artifacts) = 4

DotDot == <<".", ".">>
DotMd == <<".", "m", "d">>

SafeName(name) == ~includes(name, DotDot) /\ endsWith(name, DotMd)

\* every path the run has written so far is free of '..' and ends with '.md'
C21_WrittenPathsSafe ==
  /\ \A i \in 1..Len(artifacts) : SafeName(artifacts[i].relativePath)
  /\ \A name \in (DOMAIN store) \ (DOMAIN docs) : SafeName(name)
  /\ pc = "writing" => SafeName(pending.normalizedPath)

\* an artifact whose path normalizes to empty is passed over: nothing is
\* written or reported and the run goes on to the next artifact
C21_EmptyPathSkipped ==
  ( /\ pc = "write"
    /\ writeIndex <= Len(finalArtifacts)
    /\ normalizeDocName(finalArtifacts[writeIndex].path) = EmptyStr
    /\ ~cancelled
    /\ writeIndex' # writeIndex ) =>
    /\ writeIndex' = writeIndex + 1
    /\ pc' = "write"
    /\ store' = store
    /\ artifacts' = artifacts
    /\ events' = events
    /\ runStatus' = "running"
    /\ thrown' = NoError

\* the output names of the normalized plan of a started run
C21_OutputNamesSafe ==
  runStatus # "none" => \A i \in 1..Len(Outputs) : SafeName(Outputs[i])

\* C21: every path a run writes to the document store contains no '..' and
\* ends with '.md'; an artifact whose path normalizes to empty is skipped
\* without a write, without an artifact_written event and without failing the
\* run; and no output name of a normalized plan contains '..' or lacks the
\* '.md' suffix.
C21_PathsStayInsideDocs ==
  /\ []C21_WrittenPathsSafe
  /\ [][C21_EmptyPathSkipped]_vars
  /\ []C21_OutputNamesSafe

C21_WrittenAndSkipped == []C21_WrittenPathsSafe /\ [][C21_EmptyPathSkipped]_vars

C21_SkipReached ==
  /\ runStatus = "done"
  /\ Len(artifacts) < Len(finalArtifacts)
  /\ \E i \in 1..Len(Outputs) : includes(Outputs[i], DotDot)

\* what the server holds of a request that must not be run: no prompt, no
\* plan, or questions without an answer
Unanswered ==
  \/ prompt = EmptyStr
  \/ plan = NoPlan
  \/ Len(plan.questions) > 0 /\ clarifications = EmptyStr

\* C22: POST /api/run with a plan that has a non-empty clarifying question and
\* blank clarifications, or without a prompt or a plan, is rejected: no run is
\* created, no event is emitted, no Prompt Engine call is made and nothing is
\* written; every run that started had its questions answered.
C22_NoRunWithoutAnswers ==
  /\ (pc # "request" /\ Unanswered) => pc = "rejected"
  /\ pc = "rejected" =>
       /\ runStatus = "none"
       /\ events = << >>
       /\ calls = << >>
       /\ turnCount = 0
       /\ stepResults = << >>
       /\ artifacts = << >>
       /\ store \in StoreInputs
  /\ runStatus # "none" => ~Unanswered

C22_Witness ==
  /\ pc = "rejected"
  /\ prompt # EmptyStr
  /\ plan # NoPlan
  /\ Len(plan.questions) > 0
  /\ clarifications = EmptyStr

\* C23 as stated: a run ends with the cancelled event only when a cancellation
\* poll aborted it, and a run aborted by a failed step or by the turn budget
\* ends with the error event carrying that failure's message.
C23_TerminalReflectsCause ==
  /\ runStatus = "cancelled" => thrown = CancelledMessage
  /\ thrown \notin {NoError, CancelledMessage} =>
       (runStatus = "error" /\ Last(events) = Ev("error", thrown))

C23_Terminal ==
  /\ thrown \in {BudgetMessage, PathErrorMessage} =>
       (runStatus = "error" /\ Last(events) = Ev("error", thrown))
  /\ thrown = CancelledMessage =>
       (runStatus = "cancelled" /\ cancelled /\ Last(events) = Ev("cancelled", <<"Cancelled">>))
  /\ IsFailure(stepCallResult) =>
       /\ thrown = stepErrorMessage(stepCallResult)
       /\ runStatus \in {"error", "cancelled"}
       /\ runStatus = "error" => Last(events) = Ev("error", thrown)
       /\ runStatus = "cancelled" => (cancelled /\ Last(events) = Ev("cancelled", <<"Cancelled">>))
  /\ thrown # NoError => (pc = "returned" /\ runStatus \in {"error", "cancelled"})
  /\ runStatus \in {"error", "cancelled"} => thrown # NoError

C23_Catch ==
  /\ (thrown = NoError /\ thrown' # NoError) =>
       /\ runStatus' = IF cancelled THEN "cancelled" ELSE "error"
       /\ cancelled' = cancelled
       /\ thrown' \in {BudgetMessage, PathErrorMessage} => ~cancelled
  /\ pc = "returned" => (events' = events /\ runStatus' = runStatus /\ thrown' = thrown)

\* C23 (amended): the terminal event of an aborted run follows the run's
\* cancellation flag at the moment the failure reaches the server: cancelled
\* when a cancel request had come in, whether a cancellation poll or a failed
\* step call ended the run, and otherwise the error event with the failure's
\* message.  Turn-budget exhaustion always ends in the error event, and a cancel
\* request after the terminal event changes nothing.
C23_TerminalFollowsCancelFlag == []C23_Terminal /\ [][C23_Catch]_vars

C23_Witness ==
  /\ IsFailure(stepCallResult)
  /\ thrown = <<"boom", "; ", "bang">>
  /\ runStatus = "cancelled"
  /\ Last(events) = Ev("cancelled", <<"Cancelled">>)

FirstChars(s, n) == [i \in 1..(IF Len(s) < n THEN Len(s) ELSE n) |-> s[i]]

\* C24 as stated: for every candidate, the normalized goal is the candidate's
\* goal when that is non-empty and the first 120 characters of the prompt when
\* it is empty.
C24_GoalKeptOrPromptPrefix ==
  npc # "candidate" =>
    normalizedPlan.interpretedGoal =
      IF plan.interpretedGoal # EmptyStr THEN plan.interpretedGoal ELSE FirstChars(prompt, 120)

\* C24 (amended): for a candidate with at least one step the normalized goal
\* is the candidate's goal when that is non-empty and the first 120 characters
\* of the prompt when it is empty; for a candidate without steps it is the first
\* 120 characters of the prompt, whatever the candidate's goal.
C24_GoalOfStepsOrFallback ==
  npc # "candidate" =>
    normalizedPlan.interpretedGoal =
      IF Len(plan.steps) > 0 /\ plan.interpretedGoal # EmptyStr
      THEN plan.interpretedGoal
      ELSE FirstChars(prompt, 120)

C24_Witness ==
  /\ npc = "normalized"
  /\ Len(plan.steps) = 0
  /\ plan.interpretedGoal # EmptyStr
  /\ Len(prompt) > 120
  /\ Len(normalizedPlan.interpretedGoal) = 120
  /\ normalizedPlan.interpretedGoal # plan.interpretedGoal

NonEmptyEntries(list) == SelectSeq(list, LAMBDA q : q # EmptyStr)

FirstEntries(list, n) == [i \in 1..(IF Len(list) < n THEN Len(list) ELSE n) |-> list[i]]

\* C25: for every candidate plan, the normalized plan's questions are the
\* first (up to) three non-empty entries of the candidate's questions, in their
\* original order; empty entries are dropped and do not count towards the
\* limit of 3.
C25_FirstThreeNonEmptyQuestions ==
  npc # "candidate" =>
    normalizedPlan.questions = FirstEntries(NonEmptyEntries(plan.questions), 3)

\* what normalizePlan does: with at least one step the questions are the
\* non-empty entries among the candidate's first three; without steps, none
C25_NonEmptyOfFirstThree ==
  npc # "candidate" =>
    normalizedPlan.questions =
      IF Len(plan.steps) > 0 THEN NonEmptyEntries(FirstEntries(plan.questions, 3)) ELSE << >>

C25_EmptyEntryCounted ==
  /\ npc = "normalized"
  /\ Len(plan.steps) > 0
  /\ Len(NonEmptyEntries(plan.questions)) = 3
  /\ Len(normalizedPlan.questions) = 2

\* the candidate agents that are the first to carry their (non-empty) name,
\* letter case aside
FirstOccurrences ==
  {i \in 1..Len(plan.agents) :
     /\ plan.agents[i].name # EmptyStr
     /\ \A j \in 1..(i - 1) : toLowerCase(plan.agents[j].name) # toLowerCase(plan.agents[i].name)}

\* the k-th of them
Occurrence(k) ==
  CHOOSE i \in FirstOccurrences : Cardinality({j \in FirstOccurrences : j < i}) = k - 1

KnownRoles == {"Researcher", "Writer", "Critic", "Organizer"}
RoleCycle == <<"Researcher", "Writer", "Critic", "Organizer">>

\* C26: for a candidate with at least one step, the agents of the normalized
\* plan are the first (up to) 4 non-empty agent names distinct
\* case-insensitively, in first-occurrence order, or the single agent
\* Writer/Writer if there is none; each has its first occurrence's declared role
\* when that is one of Researcher, Writer, Critic, Organizer, and otherwise the
\* role at index (position mod 4) of that order, the position being the agent's
\* index in the deduplicated list.
C26_AgentsDedupedWithRoles ==
  (npc # "candidate" /\ Len(plan.steps) > 0) =>
    LET n == IF Cardinality(FirstOccurrences) < 4 THEN Cardinality(FirstOccurrences) ELSE 4
    IN IF n = 0
       THEN normalizedPlan.agents = <<[name |-> WriterName, role |-> "Writer"]>>
       ELSE /\ Len(normalizedPlan.agents) = n
            /\ \A k \in 1..n :
                 LET declared == plan.agents[Occurrence(k)]
                 IN /\ normalizedPlan.agents[k].name = declared.name
                    /\ normalizedPlan.agents[k].role \in KnownRoles
                    /\ normalizedPlan.agents[k].role =
                         IF declared.role \in KnownRoles THEN declared.role
                         ELSE RoleCycle[((k - 1) % 4) + 1]

C26_Witness ==
  /\ npc = "normalized"
  /\ Len(plan.steps) > 0
  /\ Cardinality(FirstOccurrences) > 4
  /\ Len(normalizedPlan.agents) = 4
  /\ \E i \in 1..Len(plan.agents) : i \notin FirstOccurrences /\ i < Occurrence(4)
  /\ \E k \in 1..4 : /\ plan.agents[Occurrence(k)].role = "Critic"
                     /\ k # 3
                     /\ normalizedPlan.agents[k].role = "Critic"
  /\ \E k \in 2..4 : /\ plan.agents[Occurrence(k)].role = "Bogus"
                     /\ normalizedPlan.agents[k].role = RoleCycle[k]

\* the recorded results are those of consecutive steps of the plan, in plan
\* order, one per step call that returned successfully
C27_ResultsInPlanOrder ==
  /\ \A j \in 1..Len(stepResults) :
       /\ calls[j].kind = "step"
       /\ j > 1 => calls[j].index = calls[j - 1].index + 1
       /\ stepResults[j].stepId = Steps[calls[j].index].id
       /\ stepResults[j].title = Steps[calls[j].index].title
       /\ stepResults[j].agent = Steps[calls[j].index].agent
  /\ Len(stepResults) =
       Cardinality({j \in 1..Len(calls) : calls[j].kind = "step"})
         - (IF pc = "stepcall" \/ IsFailure(stepCallResult) THEN 1 ELSE 0)

C27_Append ==
  /\ Len(stepResults') >= Len(stepResults)
  /\ \A j \in 1..Len(stepResults) : stepResults'[j] = stepResults[j]
  /\ Len(stepResults') <= Len(stepResults) + 1
  /\ Len(stepResults') = Len(stepResults) + 1 <=>
       (pc = "stepcall" /\ pc' # pc /\ stepCallResult'.subtype = "success")
  /\ Len(stepResults') = Len(stepResults) + 1 =>
       /\ Last(stepResults').stepId = Steps[cursor].id
       /\ Last(stepResults').output = stepCallResult'.result

\* C27: a run's StepResult sequence is append-only: every step extends it by
\* at most one entry and leaves the recorded entries as they are, it grows by
\* exactly one entry per successfully returned step call, its entries are in
\* plan order with the stepId, title and agent of the executed step, and no
\* entry is changed or removed when the run later fails or is cancelled.
C27_StepResultsAppendOnly == []C27_ResultsInPlanOrder /\ [][C27_Append]_vars

C27_Witness ==
  /\ runStatus \in {"error", "cancelled"}
  /\ IsFailure(stepCallResult)
  /\ Len(stepResults) = 2
  /\ stepResults[1].stepId # stepResults[2].stepId
  /\ startingStepIndex = 0
  /\ Len(Steps) = 3

\* the write of the executing run that has just been completed
C28_WriteDone == pc = "writing" /\ pc' = "write" /\ current' = current

C28_PreviousContentAtWrite ==
  C28_WriteDone =>
    Last(artifacts').previousContent = readOrEmpty(store, Last(artifacts').relativePath)

\* C28: for every ArtifactResult a run produces, previousContent is the content
\* the document store held under that path immediately before this run's write
\* replaced it (empty if the document was absent), in every interleaving with
\* another run that writes the same output name.
C28_PreviousContentIsReplaced == [][C28_PreviousContentAtWrite]_vars

\* what holds in every interleaving: previousContent is what the store held
\* when the run read the document, before its write was issued
C28_PreviousContentAtRead ==
  /\ (pc = "write" /\ pc' = "writing" /\ current' = current) =>
       pending'.previousContent = readOrEmpty(store, pending'.normalizedPath)
  /\ C28_WriteDone =>
       /\ Last(artifacts').previousContent = pending.previousContent
       /\ Last(artifacts').relativePath = pending.normalizedPath
       /\ store'[pending.normalizedPath] = Last(artifacts').content

C28_PreviousContentIsRead == [][C28_PreviousContentAtRead]_vars

C28_StaleReached ==
  /\ pc = "writing"
  /\ pending.previousContent # readOrEmpty(store, pending.normalizedPath)

RECURSIVE BulletLines(_)
\* one "- item" line per entry, separated by line breaks
BulletLines(list) ==
  IF Len(list) = 1 THEN <<"- ">> \o list[1]
  ELSE <<"- ">> \o list[1] \o <<"\n">> \o BulletLines(Tail(list))

BulletsOr(list, none) == IF list = << >> THEN none ELSE BulletLines(list)

C29_OnePerOutput ==
  artifactResult # NoResult =>
    /\ Len(fallbackArtifacts) = Len(Outputs)
    /\ \A i \in 1..Len(Outputs) :
         /\ fallbackArtifacts[i].path = Outputs[i]
         /\ toLowerCase(Outputs[i]) = toLowerCase(SourcesMd) =>
              fallbackArtifacts[i].content =
                <<"# Sources\n\n">> \o BulletsOr(docPaths, <<"- None">>)
         /\ toLowerCase(Outputs[i]) = toLowerCase(OpenQuestionsMd) =>
              fallbackArtifacts[i].content =
                <<"# Open Questions\n\n">> \o BulletsOr(normalizedPlan.questions, <<"- None noted.">>)
         /\ fallbackArtifacts[i].content \notin {<<"E0">>, <<"E1">>, <<"E2">>, <<"E3">>}

\* the builder's result is fixed by the run's state before the call returns:
\* whatever the artifact-assembly call answers, the fallback bundle is the same
C29_FixedBeforeResponse ==
  (pc = "artcall" /\ pc' # pc) =>
    /\ fallbackArtifacts' =
         buildFallbackArtifacts(normalizedPlan, stepResults, docPaths, clarifications)
    /\ calls' = calls
    /\ turnCount' = turnCount

Opens(text) == {i \in 1..Len(text) : text[i].t = "{"}
Closes(text) == {i \in 1..Len(text) : text[i].t = "}"}
Least(S) == CHOOSE i \in S : \A j \in S : i <= j
Greatest(S) == CHOOSE i \in S : \A j \in S : j <= i

\* the text from the first opening to the last closing brace
Extracted(text) == SubSeq(text, Least(Opens(text)), Greatest(Closes(text)))

\* a text that is one object: braces around its members, or around nothing
IsObjectText(text) ==
  \/ Len(text) = 2 /\ text[1].t = "{" /\ text[2].t = "}"
  \/ Len(text) = 3 /\ text[1].t = "{" /\ text[2].t = "members" /\ text[3].t = "}"

\* C30: lenient parsing takes the substring from the first '{' to the last
\* '}' of the response and parses it, so prose before the first '{' and after
\* the last '}' is ignored and a valid object wrapped in prose parses to that
\* object; a response with no '{', no '}', with its last '}' before its first
\* '{', or whose extracted substring is not valid yields no result, and
\* createPlan then returns the fallback plan.
C30_LenientParsing ==
  (ppc \in {"returned", "failed"} /\ planResult.subtype = "success") =>
    LET text == planResult.result IN
      IF Opens(text) = {} \/ Closes(text) = {} \/ Greatest(Closes(text)) < Least(Opens(text))
      THEN /\ ~planParsed.ok
           /\ ppc = "returned"
           /\ createdPlan.steps = FixedFallbackSteps
      ELSE IF IsObjectText(Extracted(text))
      THEN /\ planParsed.ok
           /\ planParsed.value =
                (IF Len(Extracted(text)) = 3 THEN Extracted(text)[2].v ELSE NoMembers)
      ELSE /\ ~planParsed.ok
           /\ ppc = "returned"
           /\ createdPlan.steps = FixedFallbackSteps

C30_Witness ==
  /\ ppc = "returned"
  /\ Len(planResult.result) = 5
  /\ planResult.result[1] = Prose
  /\ planResult.result[5] = Prose
  /\ planParsed.ok
  /\ planParsed.value.interpretedGoal = <<"G">>
  /\ Len(createdPlan.steps) = 1
  /\ createdPlan.steps[1].title = <<"T", "1">>

(***************************************************************************)
(* C31: order of a run's event log                                          *)
(***************************************************************************)
EventsOfKinds(kinds) == SelectSeq(events, LAMBDA e : e.event \in kinds)

\* positions of finalArtifacts the write loop has passed without skipping them
PassedPositions ==
  {i \in 1..Len(finalArtifacts) :
     /\ i < writeIndex
     /\ normalizeDocName(finalArtifacts[i].path) # EmptyStr}

\* the position of finalArtifacts behind the k-th written artifact
PositionOfWritten(k) ==
  CHOOSE i \in PassedPositions : Cardinality({j \in PassedPositions : j <= i}) = k

\* C31: in the event log of a run, started is the first event; the step
\* events are step_started(s), step_completed(s) pairs for the steps s of the
\* normalized plan taken in plan order from the first step to run, so each
\* step's start precedes its completion and that completion precedes the next
\* step's start; every artifact_written comes after every step_completed; the
\* artifact_written events are, in order, the written artifacts, the k-th one
\* being the entry of the k-th planned output that was not skipped; and a done
\* event has an artifact_written event before it for every written artifact.
C31_EventOrder ==
  LET stepEvents == EventsOfKinds({"step_started", "step_completed"})
      written == EventsOfKinds({"artifact_written"})
      first == firstStepToRun(Steps, startingStepIndex)
  IN /\ Len(events) > 0 => events[1].event = "started"
     /\ \A j \in 1..Len(stepEvents) :
          LET k == first + ((j - 1) \div 2)
          IN /\ k <= Len(Steps)
             /\ stepEvents[j] = Ev(IF j % 2 = 1 THEN "step_started" ELSE "step_completed",
                                   Steps[k].id)
     /\ \A i, j \in 1..Len(events) :
          events[i].event = "artifact_written" /\ events[j].event = "step_completed" => j < i
     /\ Len(written) = Len(artifacts)
     /\ Len(written) = Cardinality(PassedPositions)
     /\ Len(finalArtifacts) \in {0, Len(Outputs)}
     /\ \A k \in 1..Len(written) :
          LET i == PositionOfWritten(k)
          IN /\ written[k].data = artifacts[k].relativePath
             /\ written[k].data = normalizeDocName(finalArtifacts[i].path)
             /\ toLowerCase(finalArtifacts[i].path) = toLowerCase(Outputs[i])
     /\ \A d \in 1..Len(events) :
          events[d].event = "done" =>
            /\ d = Len(events)
            /\ Cardinality({i \in 1..(d - 1) : events[i].event = "artifact_written"})
                 = Len(artifacts)
            /\ writeIndex > Len(finalArtifacts)

\* a finished run that started past the first step, completed two steps and
\* wrote several artifacts
C31_Witness ==
  /\ runStatus = "done"
  /\ startingStepIndex = 1
  /\ Len(stepResults) >= 2
  /\ Len(artifacts) >= 2

(***************************************************************************)
(* C32: the default turn budget is never exhausted                          *)
(***************************************************************************)
\* C32: a run with the default budget MAX_TURNS, the budget of every run
\* started through POST /api/run, never fails with the turn-budget error,
\* whatever the plan and the starting index: its normalized plan has at most
\* MAX_STEPS steps, it issues at most one call per step and one for the
\* artifacts, and that number stays within the budget.
C32_DefaultBudgetNeverExceeded ==
  (runStatus # "none" /\ maxTurns = MAX_TURNS) =>
    /\ thrown # BudgetMessage
    /\ Len(Steps) <= MAX_STEPS
    /\ Len(calls) <= Len(Steps) + 1
    /\ turnCount = Len(calls)
    /\ turnCount <= maxTurns

\* a run of a plan cut to MAX_STEPS steps that ran them all under the default
\* budget and issued the artifact-assembly call as well
C32_Witness ==
  /\ runStatus = "done"
  /\ maxTurns = MAX_TURNS
  /\ Len(plan.steps) > MAX_STEPS
  /\ Len(stepResults) = MAX_STEPS
  /\ Len(calls) = MAX_STEPS + 1

(***************************************************************************)
(* C33: step_started and the step's Prompt Engine call                      *)
(***************************************************************************)
StepCalls == Cardinality({i \in 1..Len(calls) : calls[i].kind = "step"})

\* C33: for any turn budget, every step whose step_started event was emitted
\* has a Prompt Engine call issued for it, so that a step_started event is
\* followed by the step's completion or by the failure of the step's call and
\* never by a failure raised before the call.
C33_StartedStepHasCall ==
  /\ CountEvents("step_started") = StepCalls
  /\ (pc = "returned" /\ Len(events) >= 2 /\ events[Len(events) - 1].event = "step_started")
       => stepFailed(stepCallResult) \/ cancelled

\* the part that holds: as long as the budget error has not been thrown, every
\* step_started event has its call
C33_StartedStepHasCallWithinBudget ==
  thrown # BudgetMessage => CountEvents("step_started") = StepCalls

\* a step was announced and the run failed on its budget before the call
C33_StartedWithoutCall ==
  /\ thrown = BudgetMessage
  /\ CountEvents("step_started") = StepCalls + 1

(***************************************************************************)
(* C34: the event stream of a run                                           *)
(***************************************************************************)
IsPrefix(s, t) == Len(s) <= Len(t) /\ s = SubSeq(t, 1, Len(s))

\* C34: a client that subscribed to the run's event stream, at whatever
\* moment of the run and between whatever two emissions, and is still
\* connected has been sent exactly the run's event log: every event once, in
\* emission order, with no gap and no duplicate between the replayed and the
\* live part.  A client that closed its stream was sent a prefix of the log,
\* and a client answered 404 was sent nothing.
C34_StreamIsTheLog ==
  /\ listeners = {c \in Clients : streams[c] = "open"}
  /\ \A c \in Clients :
       /\ streams[c] = "open" => sent[c] = events
       /\ streams[c] = "closed" => IsPrefix(sent[c], events)
       /\ streams[c] \in {"none", "notfound"} => sent[c] = << >>

\* a run that completed its steps and is done: one client holds its whole log,
\* the other subscribed while the run was going on and closed its stream
\* before the end, having been sent a part of the log
C34_Witness ==
  /\ runStatus = "done"
  /\ CountEvents("step_completed") = 2
  /\ \E c, d \in Clients :
       /\ streams[c] = "open"
       /\ sent[c] = events
       /\ streams[d] = "closed"
       /\ Len(sent[d]) > 2
       /\ Len(sent[d]) < Len(events)

(***************************************************************************)
(* C35: the main artifact of a successful run                               *)
(***************************************************************************)
\* C35: on every run that completes successfully, mainArtifact is the path of
\* an artifact this run wrote and its name is not reserved: neither the
\* branch 'first written artifact' (everything written is reserved) nor the
\* branch 'Brief.md with nothing written' is taken.
C35_MainArtifactWrittenAndNotReserved ==
  runStatus = "done" =>
    /\ \E i \in 1..Len(artifacts) : artifacts[i].relativePath = mainArtifact
    /\ ~ReservedName(mainArtifact)

\* the part that holds: a successful run wrote at least the required outputs,
\* and mainArtifact is the path of one of the artifacts it wrote
C35_MainArtifactWritten ==
  runStatus = "done" =>
    /\ Len(artifacts) >= Len(REQUIRED_OUTPUTS)
    /\ \E i \in 1..Len(artifacts) : artifacts[i].relativePath = mainArtifact

\* a successful run whose written artifacts are all reserved: the planned
\* main output was skipped by the write loop
C35_AllWrittenReserved ==
  /\ runStatus = "done"
  /\ \A i \in 1..Len(artifacts) : ReservedName(artifacts[i].relativePath)
  /\ mainArtifact = artifacts[1].relativePath
  /\ \E i \in 1..Len(Outputs) : ~ReservedName(Outputs[i])

(***************************************************************************)
(* C36: startingStepIndex                                                   *)
(***************************************************************************)
StepCallIndices == SelectSeq(calls, LAMBDA c : c.kind = "step")

\* the step calls are those of the plan's steps from position `from` (counted
\* from 0) on, in order, and all of them once the artifact call is issued
StepsExecutedFrom(from) ==
  /\ \A j \in 1..Len(StepCallIndices) : StepCallIndices[j].index = from + j
  /\ (\E i \in 1..Len(calls) : calls[i].kind = "artifact") =>
       Len(StepCallIndices) = (IF from >= Len(Steps) THEN 0 ELSE Len(Steps) - from)

\* C36: for every integer startingStepIndex, negative ones and ones past the
\* end of the plan included, the steps executed are exactly the steps of the
\* normalized plan at positions >= max(0, startingStepIndex); with an index
\* >= len(steps) no step call is made and the artifact-assembly call is
\* issued with empty step notes.
C36_StepsFromMaxZeroIndex ==
  runStatus # "none" =>
    /\ StepsExecutedFrom(IF startingStepIndex < 0 THEN 0 ELSE startingStepIndex)
    /\ (startingStepIndex >= Len(Steps) /\ Len(calls) > 0) =>
         /\ calls[1].kind = "artifact"
         /\ stepResults = << >>

\* the part that holds: the same for every index that is not negative
C36_StepsFromNonNegativeIndex ==
  (runStatus # "none" /\ startingStepIndex >= 0) =>
    /\ StepsExecutedFrom(startingStepIndex)
    /\ (startingStepIndex >= Len(Steps) /\ Len(calls) > 0) =>
         /\ calls[1].kind = "artifact"
         /\ stepResults = << >>

\* a run started at index -1 of a plan of several steps that executed the
\* last step only and went on to the artifact-assembly call
C36_NegativeIndexRunsLastStepOnly ==
  /\ startingStepIndex < 0
  /\ Len(Steps) >= 2
  /\ Len(calls) = 2
  /\ calls[1] = [kind |-> "step", index |-> Len(Steps)]
  /\ calls[2].kind = "artifact"

(***************************************************************************)
(* C37: step ids under the plan editor's edits                              *)
(***************************************************************************)
DistinctIds(steps) == \A i, j \in 1..Len(steps) : steps[i].id = steps[j].id => i = j

\* C37: starting from a plan with the step ids step-1..step-n, after any
\* sequence of Add step and Remove step edits the step ids of the plan are
\* pairwise distinct and the plan has at most MAX_STEPS steps; normalizePlan
\* keeps the ids, so the step ids of the executed plan are distinct too.
C37_EditedIdsDistinct ==
  /\ DistinctIds(plan.steps)
  /\ Len(plan.steps) <= MAX_STEPS
  /\ npc = "normalized" => DistinctIds(normalizedPlan.steps)

\* the part that holds: the editor never exceeds MAX_STEPS steps, and the
\* executed plan has the ids of the edited plan, position by position
C37_EditedWithinLimitIdsKept ==
  /\ Len(plan.steps) <= MAX_STEPS
  /\ (npc = "normalized" /\ Len(plan.steps) > 0) =>
       /\ Len(normalizedPlan.steps) = Len(plan.steps)
       /\ \A i \in 1..Len(plan.steps) : normalizedPlan.steps[i].id = plan.steps[i].id

\* the plan step-2, step-2 after Remove step on the first of two steps and
\* Add step, handed to the run with both steps under one id
C37_DuplicateIdExecuted ==
  /\ npc = "normalized"
  /\ Len(normalizedPlan.steps) = 2
  /\ normalizedPlan.steps[1].id = StepId(2)
  /\ normalizedPlan.steps[2].id = StepId(2)

====
